---- MODULE Spec2Model ----
(***************************************************************************)
(* Verification model of agent-ui-framework.                               *)
(*                                                                         *)
(*   - internal/ui/animations/spring.go : Spring (spring-physics animator) *)
(*   - internal/theme/{theme,charm,loader}.go : theme registry and loaders *)
(*   - the agent-side Transport Bridge / Correlation Table (bridge.py)     *)
(*                                                                         *)
(* float64 values are modelled as fixed-point numbers with Scale units per *)
(* 1.0, together with the IEEE-754 special values NaN, +Inf and -Inf.      *)
(***************************************************************************)
EXTENDS Integers, Sequences, FiniteSets, TLC

VARIABLES
    \* ---- animations.Spring -------------------------------------------
    spring,      \* the Spring struct: current, target, velocity, active
    config,      \* the SpringConfig the spring was created with
    op,          \* the last Spring method called
    arg,         \* the argument of that call (0 when it takes none)
    ret,         \* the value returned by the last Update call
    pre,         \* the Spring struct as it was before the last call
    nCalls,      \* number of SetTarget / SetCurrent calls so far
    nTicks,      \* number of Update calls so far (saturating)
    frame,       \* parity of the number of Update calls (of TickMsg frames)
    tickInterval,\* the delay of the tea.Tick last built by TickCmd, in ns
    \* ---- animations.OpacitySpring ------------------------------------
    fade,        \* the OpacitySpring struct: its spring
    fadeOp,      \* the last OpacitySpring method called
    fadeReq,     \* the opacity last asked for: 1 by FadeIn, 0 by FadeOut
    fadeRet,     \* the value returned by the last Update call
    fadePre,     \* the OpacitySpring as it was before the last call
    nFadeCalls,  \* number of FadeIn / FadeOut / SetOpacity calls so far
    nFadeTicks,  \* number of Update calls so far (saturating)
    \* ---- animations.PositionSpring -----------------------------------
    position,    \* the PositionSpring struct: its springs X and Y
    posOp,       \* the last PositionSpring method called
    posRet,      \* the value returned by the last Update call
    posPre,      \* the PositionSpring as it was before the last call
    nPosCalls,   \* number of SetTarget / SetCurrent calls so far
    nPosTicks,   \* number of Update calls so far (saturating)
    \* ---- package theme ------------------------------------------------
    Current,     \* var Current Theme: the active theme (a value copy)
    Available,   \* var Available map[string]*Theme: the registry
    env,         \* the value of the AGENTUI_THEME environment variable
    themeOp,     \* the last theme function called, with its argument
    themeRet,    \* what that call returned
    preCurrent,  \* Current before the last call
    preAvailable,\* Available before the last call
    nThemeOps,   \* number of theme calls so far
    goroutines,  \* per goroutine: where it is in its call on the registry
    race,        \* two unsynchronised accesses of Available have overlapped
    fatal,       \* the fatal error the Go runtime has thrown ("" when none)
    firstStyle,  \* per build: the style its first BuildChromaStyle returned
    \* ---- Transport Bridge (agent side) --------------------------------
    bridge,      \* "Connected" or "Disconnected"
    pending,     \* the Correlation Table: id |-> the request call awaiting it
    reqState,    \* per request call: "new", "waiting", "done", "unsent"
    reqId,       \* per request call: the id assigned to its message (0: none)
    outcomes,    \* per request call: what the caller has observed, in order
    nextId,      \* the next fresh message id
    toRenderer,  \* request lines written to the renderer's stdin, unread
    rendering,   \* ids of the requests the renderer is showing
    toBridge,    \* reply lines written to the renderer's stdout, unread
    dropped,     \* replies dropped by complete() for want of an entry
    restarts,    \* renderer restarts so far
    bridgeOp,    \* the last bridge step, with the request and id involved
    prePending,  \* pending before the last bridge step
    preOutcomes  \* outcomes before the last bridge step

fadeVars == <<fade, fadeOp, fadeReq, fadeRet, fadePre, nFadeCalls, nFadeTicks>>

positionVars == <<position, posOp, posRet, posPre, nPosCalls, nPosTicks>>

springVars == <<spring, config, op, arg, ret, pre, nCalls, nTicks, frame,
                tickInterval,
                fade, fadeOp, fadeReq, fadeRet, fadePre, nFadeCalls,
                nFadeTicks,
                position, posOp, posRet, posPre, nPosCalls, nPosTicks>>

goVars == <<goroutines, race, fatal, firstStyle>>

themeVars == <<Current, Available, env, themeOp, themeRet,
               preCurrent, preAvailable, nThemeOps,
               goroutines, race, fatal, firstStyle>>

bridgeVars == <<bridge, pending, reqState, reqId, outcomes, nextId,
                toRenderer, rendering, toBridge, dropped, restarts,
                bridgeOp, prePending, preOutcomes>>

vars == <<spring, config, op, arg, ret, pre, nCalls, nTicks, frame,
          tickInterval,
          fade, fadeOp, fadeReq, fadeRet, fadePre, nFadeCalls, nFadeTicks,
          position, posOp, posRet, posPre, nPosCalls, nPosTicks,
          Current, Available, env, themeOp, themeRet,
          preCurrent, preAvailable, nThemeOps,
          goroutines, race, fatal, firstStyle,
          bridge, pending, reqState, reqId, outcomes, nextId,
          toRenderer, rendering, toBridge, dropped, restarts,
          bridgeOp, prePending, preOutcomes>>

(***************************************************************************)
(* Bounds of the model.                                                    *)
(***************************************************************************)
\* fixed-point resolution: units per 1.0
Scale == 100
\* SetTarget / SetCurrent calls explored per run
MaxCalls == 2
\* SetTarget / SetCurrent may interleave with the first MaxEarlyTicks Updates
MaxEarlyTicks == 2
\* theme calls (SetTheme, Register, LoadThemeFromEnv, setenv) per run
MaxThemeOps == 3
\* request calls made through the bridge per run
MaxRequests == 2
\* renderer restarts the bridge attempts
MaxRestarts == 1
\* theme-changing calls in a rendering run
MaxRenderThemeOps == 1
\* PositionSpring SetTarget / SetCurrent calls explored per run
MaxPosCalls == 1
\* goroutines that use the theme registry at the same time
MaxGoroutines == 2

(***************************************************************************)
(* float64                                                                 *)
(***************************************************************************)
F(n) == [k |-> "fin", v |-> n]
NaN == [k |-> "nan", v |-> 0]
Inf(sgn) == [k |-> "inf", v |-> sgn]

IsFin(x) == x.k = "fin"
IsNaN(x) == x.k = "nan"

Sign(n) == IF n > 0 THEN 1 ELSE IF n < 0 THEN -1 ELSE 0
Abs(n) == IF n < 0 THEN -n ELSE n

\* n / d rounded to the nearest integer (ties away from zero), d > 0
RoundDiv(n, d) == Sign(n) * ((Abs(n) + (d \div 2)) \div d)

\* IEEE-754 negation
FNeg(x) == IF x.k = "nan" THEN NaN ELSE [k |-> x.k, v |-> -x.v]

\* IEEE-754 addition: NaN is absorbing, Inf + (-Inf) is NaN
FAdd(x, y) ==
    IF x.k = "nan" \/ y.k = "nan" THEN NaN
    ELSE IF x.k = "inf" /\ y.k = "inf" THEN (IF x.v = y.v THEN x ELSE NaN)
    ELSE IF x.k = "inf" THEN x
    ELSE IF y.k = "inf" THEN y
    ELSE F(x.v + y.v)

FSub(x, y) == FAdd(x, FNeg(y))

\* x * (c / d) for a coefficient c / d with c # 0 and d > 0
FMulC(x, c, d) ==
    IF x.k = "nan" THEN NaN
    ELSE IF x.k = "inf" THEN Inf(x.v * Sign(c))
    ELSE F(RoundDiv(x.v * c, d))

\* IEEE-754 ordered comparison x < y: false whenever an operand is NaN
FLt(x, y) ==
    IF x.k = "nan" \/ y.k = "nan" THEN FALSE
    ELSE IF x.k = "inf" /\ y.k = "inf" THEN x.v < y.v
    ELSE IF x.k = "inf" THEN x.v < 0
    ELSE IF y.k = "inf" THEN y.v > 0
    ELSE x.v < y.v

\* IEEE-754 equality x == y: false whenever an operand is NaN
FEq(x, y) == x.k # "nan" /\ y.k # "nan" /\ x = y

(***************************************************************************)
(* SpringConfig and the harmonica spring coefficients                      *)
(***************************************************************************)
\* Stiffness and Damping in thousandths
DefaultSpringConfig == [FPS |-> 60, Stiffness |-> 7000, Damping |-> 150]
FastSpringConfig == [FPS |-> 60, Stiffness |-> 12000, Damping |-> 250]
SlowSpringConfig == [FPS |-> 60, Stiffness |-> 4000, Damping |-> 100]

\* a config an application builds itself:
\* SpringConfig{FPS: 30, Stiffness: 7.0, Damping: 0.15}
CustomSpringConfig == [FPS |-> 30, Stiffness |-> 7000, Damping |-> 150]

Configs ==
    {DefaultSpringConfig, FastSpringConfig, SlowSpringConfig,
     CustomSpringConfig}

\* harmonica.NewSpring(FPS(fps), stiffness, damping): the four coefficients
\* of the under-damped closed-form solution over one frame, as numerators
\* over den.
\*   posPos = e^(-wz dt) (cos(a dt) + wz sin(a dt)/a)
\*   posVel = e^(-wz dt) sin(a dt)/a
\*   velPos = -e^(-wz dt) (a sin(a dt) + wz^2 sin(a dt)/a)
\*   velVel = e^(-wz dt) (cos(a dt) - wz sin(a dt)/a)
\* with dt = 1/fps, w = stiffness, z = damping, a = w sqrt(1 - z^2).
NewHarmonicaSpring(c) ==
    IF c = DefaultSpringConfig THEN
        [posPos |-> 99328, posVel |-> 1634,
         velPos |-> -80072, velVel |-> 95896, den |-> 100000]
    ELSE IF c = FastSpringConfig THEN
        [posPos |-> 98071, posVel |-> 1575,
         velPos |-> -226871, velVel |-> 88618, den |-> 100000]
    ELSE IF c = SlowSpringConfig THEN
        [posPos |-> 99779, posVel |-> 1654,
         velPos |-> -26470, velVel |-> 98455, den |-> 100000]
    ELSE
        [posPos |-> 97352, posVel |-> 3190,
         velPos |-> -156320, velVel |-> 90653, den |-> 100000]

\* harmonica.Spring.Update(pos, vel, equilibriumPos):
\*   oldPos = pos - equilibriumPos
\*   newPos = oldPos*posPos + oldVel*posVel + equilibriumPos
\*   newVel = oldPos*velPos + oldVel*velVel
\* Finite operands take plain fixed-point arithmetic; as soon as an operand
\* is NaN or an infinity the IEEE-754 rules for special values apply.
HarmonicaUpdate(h, pos, vel, equilibriumPos) ==
    IF pos.k = "fin" /\ vel.k = "fin" /\ equilibriumPos.k = "fin" THEN
        [pos |-> F(RoundDiv((pos.v - equilibriumPos.v) * h.posPos
                              + vel.v * h.posVel, h.den)
                   + equilibriumPos.v),
         vel |-> F(RoundDiv((pos.v - equilibriumPos.v) * h.velPos
                              + vel.v * h.velVel, h.den))]
    ELSE
        [pos |-> FAdd(FAdd(FMulC(FSub(pos, equilibriumPos), h.posPos, h.den),
                           FMulC(vel, h.posVel, h.den)),
                      equilibriumPos),
         vel |-> FAdd(FMulC(FSub(pos, equilibriumPos), h.velPos, h.den),
                      FMulC(vel, h.velVel, h.den))]

(***************************************************************************)
(* animations.Spring                                                       *)
(***************************************************************************)
\* the settle threshold passed to isSettled by Spring.Update: 0.5
Threshold == F(Scale \div 2)

NewSpring(c) ==
    [current |-> F(0), target |-> F(0), velocity |-> F(0), active |-> FALSE]

\* SetTarget that leaves the active flag as it is
SetTargetKeepFlag(s, target) == [s EXCEPT !.target = target]

\* SetTarget that restarts the motion from rest
SetTargetFromRest(s, target) ==
    [s EXCEPT !.target = target, !.velocity = F(0), !.active = TRUE]

\* Spring.SetTarget
SetTarget(s, target) == [s EXCEPT !.target = target, !.active = TRUE]

\* SetCurrent that moves the position and keeps the pending target
SetCurrentKeepTarget(s, value) ==
    [s EXCEPT !.current = value, !.velocity = F(0), !.active = FALSE]

\* Spring.SetCurrent
SetCurrent(s, value) ==
    [s EXCEPT !.current = value, !.target = value,
              !.velocity = F(0), !.active = FALSE]

isSettled(current, velocity, target, threshold) ==
    LET d == FSub(current, target)
        positionDelta == IF FLt(d, F(0)) THEN FNeg(d) ELSE d
        absVelocity == IF FLt(velocity, F(0)) THEN FNeg(velocity) ELSE velocity
    IN  FLt(positionDelta, threshold) /\ FLt(absVelocity, threshold)

\* Update without the early return for an inactive spring
UpdateNoGuard(s, c) ==
    LET st == HarmonicaUpdate(NewHarmonicaSpring(c),
                              s.current, s.velocity, s.target)
    IN  IF isSettled(st.pos, st.vel, s.target, Threshold)
        THEN [s |-> [s EXCEPT !.current = s.target, !.velocity = F(0),
                              !.active = FALSE],
              ret |-> FALSE]
        ELSE [s |-> [s EXCEPT !.current = st.pos, !.velocity = st.vel],
              ret |-> TRUE]

\* Update that deactivates a settled spring without snapping it to the target
UpdateNoSnap(s, c) ==
    IF ~s.active THEN [s |-> s, ret |-> FALSE]
    ELSE
        LET st == HarmonicaUpdate(NewHarmonicaSpring(c),
                                  s.current, s.velocity, s.target)
        IN  IF isSettled(st.pos, st.vel, s.target, Threshold)
            THEN [s |-> [s EXCEPT !.current = st.pos, !.velocity = st.vel,
                                  !.active = FALSE],
                  ret |-> FALSE]
            ELSE [s |-> [s EXCEPT !.current = st.pos, !.velocity = st.vel],
                  ret |-> TRUE]

\* Spring.Update: the resulting struct and the returned bool
Update(s, c) ==
    IF ~s.active THEN [s |-> s, ret |-> FALSE]
    ELSE
        LET st == HarmonicaUpdate(NewHarmonicaSpring(c),
                                  s.current, s.velocity, s.target)
        IN  IF isSettled(st.pos, st.vel, s.target, Threshold)
            THEN [s |-> [s EXCEPT !.current = s.target, !.velocity = F(0),
                                  !.active = FALSE],
                  ret |-> FALSE]
            ELSE [s |-> [s EXCEPT !.current = st.pos, !.velocity = st.vel],
                  ret |-> TRUE]

Value(s) == s.current
IsActive(s) == s.active

\* time.Second, a time.Duration: nanoseconds
Second == 1000000000

\* TickCmd(): the delay handed to tea.Tick, time.Second/60
TickCmd == Second \div 60

\* PositionSpring: a struct of two Springs. Its methods carry the type's
\* name, as Spring's methods have the plain ones.
NewPositionSpring(c) == [X |-> NewSpring(c), Y |-> NewSpring(c)]

PositionSpringSetTarget(p, x, y) ==
    [X |-> SetTarget(p.X, x), Y |-> SetTarget(p.Y, y)]

PositionSpringSetCurrent(p, x, y) ==
    [X |-> SetCurrent(p.X, x), Y |-> SetCurrent(p.Y, y)]

\* Update written as p.X.Update() || p.Y.Update(): Y steps only when X has
\* come to rest
PositionSpringUpdateShortCircuit(p, c) ==
    IF Update(p.X, c).ret
    THEN [p |-> [X |-> Update(p.X, c).s, Y |-> p.Y], ret |-> TRUE]
    ELSE [p |-> [X |-> Update(p.X, c).s, Y |-> Update(p.Y, c).s],
          ret |-> Update(p.Y, c).ret]

\* PositionSpring.Update: both springs step, X first
PositionSpringUpdate(p, c) ==
    LET xActive == Update(p.X, c).ret
        yActive == Update(p.Y, c).ret
    IN  [p |-> [X |-> Update(p.X, c).s, Y |-> Update(p.Y, c).s],
         ret |-> xActive \/ yActive]

PositionSpringIsActive(p) == IsActive(p.X) \/ IsActive(p.Y)

\* OpacitySpring: a struct of one Spring
NewOpacitySpring(c) == [spring |-> NewSpring(c)]

FadeIn(o) == [spring |-> SetTarget(o.spring, F(Scale))]

FadeOut(o) == [spring |-> SetTarget(o.spring, F(0))]

\* SetOpacity: the two comparisons, then SetTarget
SetOpacity(o, opacity) ==
    LET atLeast0 == IF FLt(opacity, F(0)) THEN F(0) ELSE opacity
        atMost1 == IF FLt(F(Scale), atLeast0) THEN F(Scale) ELSE atLeast0
    IN  [spring |-> SetTarget(o.spring, atMost1)]

\* OpacitySpring.Update that stops a settled spring where it is
OpacitySpringUpdateNoSnap(o, c) ==
    [o |-> [spring |-> UpdateNoSnap(o.spring, c).s],
     ret |-> UpdateNoSnap(o.spring, c).ret]

\* OpacitySpring.Update
OpacitySpringUpdate(o, c) ==
    [o |-> [spring |-> Update(o.spring, c).s],
     ret |-> Update(o.spring, c).ret]

\* OpacitySpring.Opacity
Opacity(o) ==
    LET value == Value(o.spring)
    IN  IF FLt(value, F(0)) THEN F(0)
        ELSE IF FLt(F(Scale), value) THEN F(Scale)
        ELSE value

OpacitySpringIsActive(o) == IsActive(o.spring)

\* OpacitySpring.IsVisible: Opacity() > 0.01
IsVisible(o) == FLt(F(Scale \div 100), Opacity(o))

(***************************************************************************)
(* package theme: lipgloss colours, Theme, the built-in themes             *)
(***************************************************************************)
\* lipgloss.Color(s) and lipgloss.AdaptiveColor{Light, Dark}
Color(str) == [type |-> "Color", val |-> str]
AdaptiveColor(light, dark) ==
    [type |-> "AdaptiveColor", Light |-> light, Dark |-> dark]

CharmPurple == Color("#7D56F4")
CharmPink == Color("212")
CharmViolet == Color("99")
CharmTeal == Color("35")
CharmIndigo == Color("63")

\* BuildStyles(c): the colour attributes of the styles built from a palette
\* (chrome, form and alert styles; the remaining styles use the same roles)
BuildStyles(c) ==
    [Header |-> [Background |-> c.Surface, Foreground |-> c.Primary],
     Footer |-> [Background |-> c.Surface, Foreground |-> c.TextMuted],
     UserMessage |-> [Background |-> c.Surface, Foreground |-> c.Text,
                      BorderForeground |-> c.Primary],
     FormInput |-> [Background |-> c.Overlay, Foreground |-> c.Text],
     FormButtonFocus |-> [Background |-> c.Primary,
                          Foreground |-> c.Background,
                          BorderForeground |-> c.Primary],
     AlertInfo |-> [BorderForeground |-> c.Info, Foreground |-> c.Text],
     AlertSuccess |-> [BorderForeground |-> c.Success, Foreground |-> c.Text],
     AlertWarning |-> [BorderForeground |-> c.Warning, Foreground |-> c.Text],
     AlertError |-> [BorderForeground |-> c.Error, Foreground |-> c.Text],
     Muted |-> [Foreground |-> c.TextMuted]]

CharmDarkColors ==
    [Primary |-> CharmPink, Secondary |-> CharmPurple,
     Background |-> Color("#1a1a2e"), Surface |-> Color("#252538"),
     Overlay |-> Color("#2f2f45"),
     Text |-> Color("#FAFAFA"), TextMuted |-> Color("#a9b1d6"),
     TextDim |-> Color("#565f89"),
     Success |-> Color("#04B575"), Warning |-> Color("#ffb86c"),
     Error |-> Color("#ff6b6b"), Info |-> Color("#7dcfff"),
     Accent1 |-> CharmPink, Accent2 |-> CharmPurple, Accent3 |-> CharmTeal]

CharmLightColors ==
    [Primary |-> Color("#7D56F4"), Secondary |-> Color("#d946ef"),
     Background |-> Color("#faf4ed"), Surface |-> Color("#f2e9e1"),
     Overlay |-> Color("#e8ddd5"),
     Text |-> Color("#1a1a2e"), TextMuted |-> Color("#6e6a86"),
     TextDim |-> Color("#9893a5"),
     Success |-> Color("#059669"), Warning |-> Color("#d97706"),
     Error |-> Color("#dc2626"), Info |-> Color("#0284c7"),
     Accent1 |-> Color("#d946ef"), Accent2 |-> Color("#7D56F4"),
     Accent3 |-> Color("#059669")]

CharmAutoColors ==
    [Primary |-> AdaptiveColor("#7D56F4", "212"),
     Secondary |-> AdaptiveColor("#d946ef", "#7D56F4"),
     Background |-> AdaptiveColor("#faf4ed", "#1a1a2e"),
     Surface |-> AdaptiveColor("#f2e9e1", "#252538"),
     Overlay |-> AdaptiveColor("#e8ddd5", "#2f2f45"),
     Text |-> AdaptiveColor("#1a1a2e", "#FAFAFA"),
     TextMuted |-> AdaptiveColor("#6e6a86", "#a9b1d6"),
     TextDim |-> AdaptiveColor("#9893a5", "#565f89"),
     Success |-> AdaptiveColor("#059669", "#04B575"),
     Warning |-> AdaptiveColor("#d97706", "#ffb86c"),
     Error |-> AdaptiveColor("#dc2626", "#ff6b6b"),
     Info |-> AdaptiveColor("#0284c7", "#7dcfff"),
     Accent1 |-> AdaptiveColor("#d946ef", "212"),
     Accent2 |-> AdaptiveColor("#7D56F4", "#7D56F4"),
     Accent3 |-> AdaptiveColor("#059669", "35")]

\* the package-level theme variables after init() has built their styles
CharmDark ==
    [ID |-> "charm-dark", Name |-> "Charm Dark",
     Description |->
         "The signature Charm aesthetic - glamorous terminal vibes",
     Author |-> "AgentUI Team", Version |-> "1.0.0",
     Colors |-> CharmDarkColors, Styles |-> BuildStyles(CharmDarkColors)]

CharmLight ==
    [ID |-> "charm-light", Name |-> "Charm Light",
     Description |-> "The signature Charm aesthetic - light mode",
     Author |-> "AgentUI Team", Version |-> "1.0.0",
     Colors |-> CharmLightColors, Styles |-> BuildStyles(CharmLightColors)]

CharmAuto ==
    [ID |-> "charm-auto", Name |-> "Charm Auto",
     Description |-> "Automatically adapts to terminal light/dark mode",
     Author |-> "AgentUI Team", Version |-> "1.0.0",
     Colors |-> CharmAutoColors, Styles |-> BuildStyles(CharmAutoColors)]

(***************************************************************************)
(* package theme: the registry (theme.go)                                  *)
(***************************************************************************)
\* a map with one key set or replaced
MapPut(m, key, val) ==
    [x \in DOMAIN m \cup {key} |-> IF x = key THEN val ELSE m[x]]

\* var Available = make(map[string]*Theme)
EmptyRegistry == [x \in {} |-> CharmDark]

\* Register that keeps the theme already registered under the ID
RegisterKeepFirst(avail, t) ==
    IF t.ID \in DOMAIN avail THEN avail ELSE MapPut(avail, t.ID, t)

\* Register that starts the registry afresh with the theme
RegisterAlone(avail, t) == MapPut(EmptyRegistry, t.ID, t)

\* Register(t): Available[t.ID] = t. The registry after the call.
Register(avail, t) == MapPut(avail, t.ID, t)

\* SetTheme that falls back to the default theme for an unknown name
SetThemeFallback(cur, avail, name) ==
    IF name \in DOMAIN avail
    THEN [Current |-> avail[name], ok |-> TRUE]
    ELSE [Current |-> avail["charm-dark"], ok |-> FALSE]

\* SetTheme(name): Current and the returned bool after the call
SetTheme(cur, avail, name) ==
    IF name \in DOMAIN avail
    THEN [Current |-> avail[name], ok |-> TRUE]
    ELSE [Current |-> cur, ok |-> FALSE]

\* init() that forgets to register CharmAuto
PackageInitNoAuto ==
    [Available |-> Register(Register(EmptyRegistry, CharmDark), CharmLight),
     Current |-> CharmDark]

\* func init() of charm.go: registers the three themes, selects CharmDark
PackageInit ==
    [Available |-> Register(Register(Register(EmptyRegistry, CharmDark),
                                     CharmLight), CharmAuto),
     Current |-> CharmDark]

(***************************************************************************)
(* package theme: loading themes from JSON (loader.go)                     *)
(***************************************************************************)
\* parseColor(s): lipgloss.Color(s), also for the empty string
parseColor(str) == IF str = "" THEN Color("") ELSE Color(str)

\* ThemeJSON.ToTheme(): every colour string goes through parseColor and the
\* styles are built from the parsed colours
ToTheme(tj) ==
    LET colors ==
            [Primary |-> parseColor(tj.colors.primary),
             Secondary |-> parseColor(tj.colors.secondary),
             Background |-> parseColor(tj.colors.background),
             Surface |-> parseColor(tj.colors.surface),
             Overlay |-> parseColor(tj.colors.overlay),
             Text |-> parseColor(tj.colors.text),
             TextMuted |-> parseColor(tj.colors.textMuted),
             TextDim |-> parseColor(tj.colors.textDim),
             Success |-> parseColor(tj.colors.success),
             Warning |-> parseColor(tj.colors.warning),
             Error |-> parseColor(tj.colors.error),
             Info |-> parseColor(tj.colors.info),
             Accent1 |-> parseColor(tj.colors.accent1),
             Accent2 |-> parseColor(tj.colors.accent2),
             Accent3 |-> parseColor(tj.colors.accent3)]
    IN  [ID |-> tj.id, Name |-> tj.name, Description |-> tj.description,
         Author |-> tj.author, Version |-> tj.version,
         Colors |-> colors, Styles |-> BuildStyles(colors)]

\* The zero ThemeJSON: what json.Unmarshal leaves for absent fields
ZeroColorsJSON ==
    [primary |-> "", secondary |-> "", background |-> "", surface |-> "",
     overlay |-> "", text |-> "", textMuted |-> "", textDim |-> "",
     success |-> "", warning |-> "", error |-> "", info |-> "",
     accent1 |-> "", accent2 |-> "", accent3 |-> ""]

ZeroThemeJSON ==
    [id |-> "", name |-> "", description |-> "", author |-> "",
     version |-> "", colors |-> ZeroColorsJSON]

\* The documents found in theme files. A document is the outcome of
\* json.Unmarshal into a ThemeJSON: a decoding error, or the decoded struct.
CyberpunkJSON ==
    [ok |-> TRUE,
     tj |-> [id |-> "cyberpunk", name |-> "Cyberpunk",
             description |-> "Neon", author |-> "community",
             version |-> "1.0.0",
             colors |-> [ZeroColorsJSON EXCEPT
                            !.primary = "#ff00ff", !.secondary = "46",
                            !.background = "#0a0a0f", !.surface = "#12121a",
                            !.text = "white", !.error = "#ff0",
                            !.accent1 = "212", !.accent2 = "cyan"]]]

\* a file that redefines a built-in ID
DarkOverrideJSON ==
    [ok |-> TRUE,
     tj |-> [ZeroThemeJSON EXCEPT
                !.id = "charm-dark", !.name = "My Dark",
                !.colors = [ZeroColorsJSON EXCEPT !.primary = "#000000"]]]

\* a file with mistyped hex colours
TypoJSON ==
    [ok |-> TRUE,
     tj |-> [ZeroThemeJSON EXCEPT
                !.id = "typo", !.name = "Typo",
                !.colors = [ZeroColorsJSON EXCEPT
                               !.primary = "#ff00fg", !.surface = "#12121a",
                               !.text = "#", !.accent2 = "#7D56F4"]]]

\* "{}": decodes to the zero ThemeJSON, id ""
EmptyObjectJSON == [ok |-> TRUE, tj |-> ZeroThemeJSON]

\* not JSON, or JSON of the wrong shape: json.Unmarshal fails
BrokenJSON == [ok |-> FALSE, tj |-> ZeroThemeJSON]

\* LoadThemeFromJSON(data)
LoadThemeFromJSON(data) ==
    IF ~data.ok
    THEN [theme |-> CharmDark, err |-> "failed to parse theme JSON"]
    ELSE [theme |-> ToTheme(data.tj), err |-> "nil"]

\* The file system: path |-> file. os.Stat succeeds on every path of the
\* domain; os.ReadFile fails on a file that is not readable (a directory, a
\* file without read permission).
FileSystem ==
    [path \in {"/themes/cyberpunk.json", "/themes/dark.json",
               "/themes/empty.json", "/themes/broken.json",
               "/themes/private.json", "/themes/typo.json",
               "charm-light", "charm-auto"} |->
        CASE path = "/themes/cyberpunk.json" ->
                 [readable |-> TRUE, data |-> CyberpunkJSON]
          [] path = "/themes/dark.json" ->
                 [readable |-> TRUE, data |-> DarkOverrideJSON]
          [] path = "/themes/empty.json" ->
                 [readable |-> TRUE, data |-> EmptyObjectJSON]
          [] path = "/themes/broken.json" ->
                 [readable |-> TRUE, data |-> BrokenJSON]
          [] path = "/themes/private.json" ->
                 [readable |-> FALSE, data |-> CyberpunkJSON]
          [] path = "/themes/typo.json" ->
                 [readable |-> TRUE, data |-> TypoJSON]
          [] path = "charm-light" ->
                 [readable |-> TRUE, data |-> CyberpunkJSON]
          [] path = "charm-auto" ->
                 [readable |-> FALSE, data |-> BrokenJSON]]

\* os.Stat(path) returns no error
StatOK(path) == path \in DOMAIN FileSystem

\* LoadThemeFromFile(path)
LoadThemeFromFile(path) ==
    IF ~StatOK(path) \/ ~FileSystem[path].readable
    THEN [theme |-> CharmDark, err |-> "failed to read theme file"]
    ELSE LoadThemeFromJSON(FileSystem[path].data)

\* LoadThemeFromEnv that registers a loaded file without selecting it
LoadThemeFromEnvNoSelect(cur, avail, themePath) ==
    IF themePath = "" THEN
        [Current |-> cur, Available |-> avail, err |-> "nil"]
    ELSE IF themePath \in DOMAIN avail THEN
        [Current |-> SetTheme(cur, avail, themePath).Current,
         Available |-> avail, err |-> "nil"]
    ELSE IF StatOK(themePath) THEN
        LET loaded == LoadThemeFromFile(themePath)
        IN  IF loaded.err # "nil"
            THEN [Current |-> cur, Available |-> avail,
                  err |-> "failed to load theme"]
            ELSE [Current |-> cur,
                  Available |-> Register(avail, loaded.theme),
                  err |-> "nil"]
    ELSE [Current |-> cur, Available |-> avail, err |-> "unknown theme"]

\* LoadThemeFromEnv that selects the default theme when the variable is empty
LoadThemeFromEnvDefault(cur, avail, themePath) ==
    IF themePath = "" THEN
        [Current |-> SetTheme(cur, avail, "charm-dark").Current,
         Available |-> avail, err |-> "nil"]
    ELSE IF themePath \in DOMAIN avail THEN
        [Current |-> SetTheme(cur, avail, themePath).Current,
         Available |-> avail, err |-> "nil"]
    ELSE IF StatOK(themePath) THEN
        LET loaded == LoadThemeFromFile(themePath)
            registered == Register(avail, loaded.theme)
        IN  IF loaded.err # "nil"
            THEN [Current |-> cur, Available |-> avail,
                  err |-> "failed to load theme"]
            ELSE [Current |->
                      SetTheme(cur, registered, loaded.theme.ID).Current,
                  Available |-> registered, err |-> "nil"]
    ELSE [Current |-> cur, Available |-> avail, err |-> "unknown theme"]

\* LoadThemeFromEnv that falls back to the default theme when it fails
LoadThemeFromEnvResetOnError(cur, avail, themePath) ==
    IF themePath = "" THEN
        [Current |-> cur, Available |-> avail, err |-> "nil"]
    ELSE IF themePath \in DOMAIN avail THEN
        [Current |-> SetTheme(cur, avail, themePath).Current,
         Available |-> avail, err |-> "nil"]
    ELSE IF StatOK(themePath) THEN
        LET loaded == LoadThemeFromFile(themePath)
            registered == Register(avail, loaded.theme)
        IN  IF loaded.err # "nil"
            THEN [Current |-> SetTheme(cur, avail, "charm-dark").Current,
                  Available |-> avail, err |-> "failed to load theme"]
            ELSE [Current |->
                      SetTheme(cur, registered, loaded.theme.ID).Current,
                  Available |-> registered, err |-> "nil"]
    ELSE [Current |-> SetTheme(cur, avail, "charm-dark").Current,
          Available |-> avail, err |-> "unknown theme"]

\* LoadThemeFromEnv that tries the value as a path before it tries it as an
\* ID
LoadThemeFromEnvPathFirst(cur, avail, themePath) ==
    IF themePath = "" THEN
        [Current |-> cur, Available |-> avail, err |-> "nil"]
    ELSE IF StatOK(themePath) THEN
        LET loaded == LoadThemeFromFile(themePath)
            registered == Register(avail, loaded.theme)
        IN  IF loaded.err # "nil"
            THEN [Current |-> cur, Available |-> avail,
                  err |-> "failed to load theme"]
            ELSE [Current |->
                      SetTheme(cur, registered, loaded.theme.ID).Current,
                  Available |-> registered, err |-> "nil"]
    ELSE IF themePath \in DOMAIN avail THEN
        [Current |-> SetTheme(cur, avail, themePath).Current,
         Available |-> avail, err |-> "nil"]
    ELSE [Current |-> cur, Available |-> avail, err |-> "unknown theme"]

\* LoadThemeFromEnv(): Current, Available and the returned error after the
\* call, for the value themePath of AGENTUI_THEME
LoadThemeFromEnv(cur, avail, themePath) ==
    IF themePath = "" THEN
        [Current |-> cur, Available |-> avail, err |-> "nil"]
    ELSE IF themePath \in DOMAIN avail THEN
        [Current |-> SetTheme(cur, avail, themePath).Current,
         Available |-> avail, err |-> "nil"]
    ELSE IF StatOK(themePath) THEN
        LET loaded == LoadThemeFromFile(themePath)
            registered == Register(avail, loaded.theme)
        IN  IF loaded.err # "nil"
            THEN [Current |-> cur, Available |-> avail,
                  err |-> "failed to load theme"]
            ELSE [Current |->
                      SetTheme(cur, registered, loaded.theme.ID).Current,
                  Available |-> registered, err |-> "nil"]
    ELSE [Current |-> cur, Available |-> avail, err |-> "unknown theme"]

\* strings.HasSuffix(s, suffix)
HasSuffix(s, suffix) ==
    /\ Len(s) >= Len(suffix)
    /\ SubSeq(s, Len(s) - Len(suffix) + 1, Len(s)) = suffix

\* The directories: what os.ReadDir(dir) returns, sorted by name. A
\* directory that is not listed cannot be read.
Directories ==
    [dir \in {"/themes"} |->
        <<[name |-> "README.md", isDir |-> FALSE],
          [name |-> "archive.json", isDir |-> TRUE],
          [name |-> "broken.json", isDir |-> FALSE],
          [name |-> "cyberpunk.json", isDir |-> FALSE],
          [name |-> "dark.json", isDir |-> FALSE],
          [name |-> "empty.json", isDir |-> FALSE],
          [name |-> "private.json", isDir |-> FALSE],
          [name |-> "typo.json", isDir |-> FALSE]>>]

\* the loop of LoadThemesFromDirectory, continued from entry i
RECURSIVE LoadEntries(_, _, _, _, _, _)
LoadEntries(avail, dir, entries, i, count, errors) ==
    IF i > Len(entries) THEN
        [Available |-> avail, count |-> count, errors |-> errors]
    ELSE
        LET entry == entries[i]
            loaded == LoadThemeFromFile(dir \o "/" \o entry.name)
        IN  IF entry.isDir \/ ~HasSuffix(entry.name, ".json") THEN
                LoadEntries(avail, dir, entries, i + 1, count, errors)
            ELSE IF loaded.err # "nil" THEN
                LoadEntries(avail, dir, entries, i + 1, count,
                            Append(errors, entry.name))
            ELSE
                LoadEntries(Register(avail, loaded.theme), dir, entries,
                            i + 1, count + 1, errors)

\* LoadThemesFromDirectory(dir): the registry after the call, the number of
\* themes loaded and the files that failed
LoadThemesFromDirectory(avail, dir) ==
    IF dir \notin DOMAIN Directories
    THEN [Available |-> avail, count |-> 0,
          errors |-> <<"failed to read themes directory">>]
    ELSE LoadEntries(avail, dir, Directories[dir], 1, 0, <<>>)

\* colorToString(c): the string of a lipgloss.Color, "" for every other
\* TerminalColor
colorToString(c) == IF c.type = "Color" THEN c.val ELSE ""

\* ExportThemeToJSON(t): the ThemeJSON that is marshalled
ExportThemeToJSON(t) ==
    [id |-> t.ID, name |-> t.Name, description |-> t.Description,
     author |-> t.Author, version |-> t.Version,
     colors |-> [primary |-> colorToString(t.Colors.Primary),
                 secondary |-> colorToString(t.Colors.Secondary),
                 background |-> colorToString(t.Colors.Background),
                 surface |-> colorToString(t.Colors.Surface),
                 overlay |-> colorToString(t.Colors.Overlay),
                 text |-> colorToString(t.Colors.Text),
                 textMuted |-> colorToString(t.Colors.TextMuted),
                 textDim |-> colorToString(t.Colors.TextDim),
                 success |-> colorToString(t.Colors.Success),
                 warning |-> colorToString(t.Colors.Warning),
                 error |-> colorToString(t.Colors.Error),
                 info |-> colorToString(t.Colors.Info),
                 accent1 |-> colorToString(t.Colors.Accent1),
                 accent2 |-> colorToString(t.Colors.Accent2),
                 accent3 |-> colorToString(t.Colors.Accent3)]]

(***************************************************************************)
(* package views: the Chroma style built from the current theme.           *)
(*                                                                         *)
(* The tree holds two texts of chroma_style.go: the file itself, whose     *)
(* toChromaColor hands colour strings through, and the copy that follows   *)
(* the tests in chroma_test.go, whose toChromaColor converts ANSI codes    *)
(* with ansi256ToHex. Both are modelled; a build is named by its file.     *)
(***************************************************************************)
\* lipgloss.CompleteColor{TrueColor, ANSI256, ANSI}
CompleteColor(trueColor, ansi256, ansi) ==
    [type |-> "CompleteColor", TrueColor |-> trueColor,
     ANSI256 |-> ansi256, ANSI |-> ansi]

\* lipgloss.CompleteAdaptiveColor{Light, Dark}, both of them CompleteColors
CompleteAdaptiveColor(light, dark) ==
    [type |-> "CompleteAdaptiveColor", Light |-> light, Dark |-> dark]

\* lipgloss.NoColor{}: a TerminalColor of none of the four types above
NoColor == [type |-> "NoColor"]

\* strings.HasPrefix(s, prefix)
HasPrefix(s, prefix) ==
    Len(s) >= Len(prefix) /\ SubSeq(s, 1, Len(prefix)) = prefix

\* len(s) > 0 && s[0] == '#'
HasHashPrefix(s) == HasPrefix(s, "#")

\* toChromaColor of chroma_style.go
toChromaColor(c) ==
    IF c.type = "Color" THEN c.val
    ELSE IF c.type = "AdaptiveColor" THEN c.Dark
    ELSE IF c.type = "CompleteColor" THEN
        IF c.TrueColor # "" THEN c.TrueColor
        ELSE IF c.ANSI256 # "" THEN c.ANSI256
        ELSE c.ANSI
    ELSE IF c.type = "CompleteAdaptiveColor" THEN
        IF c.Dark.TrueColor # "" THEN c.Dark.TrueColor
        ELSE IF c.Dark.ANSI256 # "" THEN c.Dark.ANSI256
        ELSE c.Dark.ANSI
    ELSE "#FFFFFF"

\* ansi256ToHex of the copy in chroma_test.go: a map of eight codes, and a
\* neutral gray for every other string
ansi256ToHex(ansiCode) ==
    CASE ansiCode = "212" -> "#FF87D7"
      [] ansiCode = "35" -> "#00AF5F"
      [] ansiCode = "99" -> "#875FFF"
      [] ansiCode = "63" -> "#5F5FFF"
      [] ansiCode = "8" -> "#808080"
      [] ansiCode = "7" -> "#C0C0C0"
      [] ansiCode = "0" -> "#000000"
      [] ansiCode = "15" -> "#FFFFFF"
      [] OTHER -> "#888888"

\* toChromaColor of the copy in chroma_test.go
toChromaColorHex(c) ==
    IF c.type = "Color" THEN
        IF HasHashPrefix(c.val) THEN c.val ELSE ansi256ToHex(c.val)
    ELSE IF c.type = "AdaptiveColor" THEN
        IF HasHashPrefix(c.Dark) THEN c.Dark ELSE ansi256ToHex(c.Dark)
    ELSE IF c.type = "CompleteColor" THEN
        IF c.TrueColor # "" THEN c.TrueColor
        ELSE IF c.ANSI256 # "" THEN ansi256ToHex(c.ANSI256)
        ELSE ansi256ToHex(c.ANSI)
    ELSE IF c.type = "CompleteAdaptiveColor" THEN
        IF c.Dark.TrueColor # "" THEN c.Dark.TrueColor
        ELSE IF c.Dark.ANSI256 # "" THEN ansi256ToHex(c.Dark.ANSI256)
        ELSE ansi256ToHex(c.Dark.ANSI)
    ELSE "#FFFFFF"

\* the two texts of package views
Builds == {"chroma_style.go", "chroma_test.go"}

\* the toChromaColor a build links
Convert(build, c) ==
    IF build = "chroma_style.go" THEN toChromaColor(c)
    ELSE toChromaColorHex(c)

\* chroma.StyleEntries of BuildChromaStyle: token type |-> entry string
\* (one token type for each palette role and suffix the function uses)
StyleEntries(colors, build) ==
    [Background |-> Convert(build, colors.Surface),
     LineNumbers |-> Convert(build, colors.TextDim),
     Keyword |-> Convert(build, colors.Primary) \o " bold",
     KeywordConstant |-> Convert(build, colors.Accent2),
     KeywordDeclaration |-> Convert(build, colors.Primary),
     KeywordType |-> Convert(build, colors.Accent3),
     Name |-> Convert(build, colors.Text),
     NameAttribute |-> Convert(build, colors.Accent1),
     NameClass |-> Convert(build, colors.Accent2) \o " bold",
     NameException |-> Convert(build, colors.Error),
     NameFunction |-> Convert(build, colors.Accent2),
     LiteralString |-> Convert(build, colors.Accent3),
     LiteralStringDoc |-> Convert(build, colors.TextMuted),
     LiteralNumber |-> Convert(build, colors.Accent1),
     Comment |-> Convert(build, colors.TextDim) \o " italic",
     CommentSpecial |-> Convert(build, colors.TextMuted) \o " italic bold",
     GenericEmph |-> Convert(build, colors.Text) \o " italic",
     GenericInserted |-> Convert(build, colors.Success),
     GenericStrong |-> Convert(build, colors.Text) \o " bold",
     Error |-> Convert(build, colors.Error) \o " bold"]

\* strings.Fields(s), continued from index i with the word read so far
RECURSIVE FieldsFrom(_, _, _, _)
FieldsFrom(s, i, word, parts) ==
    LET closed == IF word = "" THEN parts ELSE Append(parts, word)
    IN  IF i > Len(s) THEN closed
        ELSE IF SubSeq(s, i, i) = " " THEN FieldsFrom(s, i + 1, "", closed)
        ELSE FieldsFrom(s, i + 1, word \o SubSeq(s, i, i), parts)

Fields(s) == FieldsFrom(s, 1, "", <<>>)

HexDigits ==
    {"0", "1", "2", "3", "4", "5", "6", "7", "8", "9",
     "a", "b", "c", "d", "e", "f", "A", "B", "C", "D", "E", "F"}

\* chroma's normaliseColour: the text after '#', a three-digit colour doubled
normaliseColour(colour) ==
    IF HasHashPrefix(colour) THEN
        LET rest == SubSeq(colour, 2, Len(colour))
        IN  IF Len(rest) = 3
            THEN SubSeq(rest, 1, 1) \o SubSeq(rest, 1, 1)
                 \o SubSeq(rest, 2, 2) \o SubSeq(rest, 2, 2)
                 \o SubSeq(rest, 3, 3) \o SubSeq(rest, 3, 3)
            ELSE rest
    ELSE colour

\* chroma.ParseColour: strconv.ParseUint(normalised, 16, 32); the zero
\* Colour (not set) when that fails
ParseColour(colour) ==
    LET hex == normaliseColour(colour)
        ok == /\ Len(hex) >= 1
              /\ Len(hex) <= 8
              /\ \A i \in 1 .. Len(hex) : SubSeq(hex, i, i) \in HexDigits
    IN  [IsSet |-> ok, hex |-> IF ok THEN hex ELSE ""]

StyleWords ==
    {"bold", "nobold", "italic", "noitalic", "underline", "nounderline",
     "inherit", "noinherit", "bg:"}

\* chroma.ParseStyleEntry, continued from part i of the entry's fields
RECURSIVE ParseParts(_, _, _)
ParseParts(parts, i, out) ==
    IF i > Len(parts) THEN out
    ELSE LET part == parts[i]
         IN  IF part = "bold"
             THEN ParseParts(parts, i + 1, [out EXCEPT !.Bold = TRUE])
             ELSE IF part = "italic"
             THEN ParseParts(parts, i + 1, [out EXCEPT !.Italic = TRUE])
             ELSE IF part \in StyleWords
             THEN ParseParts(parts, i + 1, out)
             ELSE IF /\ HasPrefix(part, "bg:#")
                     /\ ParseColour(SubSeq(part, 4, Len(part))).IsSet
             THEN ParseParts(parts, i + 1, out)
             ELSE IF /\ HasPrefix(part, "border:#")
                     /\ ParseColour(SubSeq(part, 8, Len(part))).IsSet
             THEN ParseParts(parts, i + 1, out)
             ELSE IF HasHashPrefix(part) /\ ParseColour(part).IsSet
             THEN ParseParts(parts, i + 1,
                             [out EXCEPT !.Colour = ParseColour(part).hex])
             ELSE [out EXCEPT !.err = TRUE]

\* chroma.ParseStyleEntry(entry): err is set for an invalid colour and for
\* an unknown style element
ParseStyleEntry(entry) ==
    ParseParts(Fields(entry), 1,
               [err |-> FALSE, Colour |-> "", Bold |-> FALSE,
                Italic |-> FALSE])

\* no style: what the caller holds when MustNewStyle panicked
NoStyle == [panic |-> TRUE, Name |-> "", entries |-> <<>>]

\* no style yet: BuildChromaStyle has not been called
NotBuilt == [panic |-> FALSE, Name |-> "", entries |-> <<>>]

\* chroma.MustNewStyle(name, entries): panics when an entry does not parse
MustNewStyle(name, entries) ==
    IF \E tok \in DOMAIN entries : ParseStyleEntry(entries[tok]).err
    THEN NoStyle
    ELSE [panic |-> FALSE, Name |-> name,
          entries |-> [tok \in DOMAIN entries |->
                          ParseStyleEntry(entries[tok])]]

\* BuildChromaStyle(): the style built from theme.Current, cur
BuildChromaStyle(cur, build) ==
    MustNewStyle("charm", StyleEntries(cur.Colors, build))

(***************************************************************************)
(* Correlation Table and Transport Bridge (agent side)                     *)
(***************************************************************************)
Requests == 1 .. MaxRequests

\* a map with one key removed
MapDrop(m, key) == [x \in DOMAIN m \ {key} |-> m[x]]

EmptyTable == [x \in {} |-> 0]

\* register(id): the table with an entry for id awaited by request call r
register(table, id, r) == MapPut(table, id, r)

\* complete(id, result) that resolves the caller but keeps the entry
completeKeepEntry(table, outs, id, result) ==
    IF id \in DOMAIN table
    THEN [table |-> table,
          outs |-> [outs EXCEPT ![table[id]] = Append(@, result)],
          dropped |-> 0]
    ELSE [table |-> table, outs |-> outs, dropped |-> 1]

\* complete(id, result): resolves and removes the matching entry, lookup
\* and removal being one atomic step; without an entry the result is
\* dropped, nothing is propagated
complete(table, outs, id, result) ==
    IF id \in DOMAIN table
    THEN [table |-> MapDrop(table, id),
          outs |-> [outs EXCEPT ![table[id]] = Append(@, result)],
          dropped |-> 0]
    ELSE [table |-> table, outs |-> outs, dropped |-> 1]

\* the timeout path that fails the call but leaves its entry in the table
expireKeepEntry(table, outs, id) ==
    [table |-> table,
     outs |-> [outs EXCEPT ![table[id]] =
                  Append(@, [kind |-> "Timeout", id |-> id])]]

\* the timeout path of request: the entry is removed and the call fails
\* with Timeout
expire(table, outs, id) ==
    [table |-> MapDrop(table, id),
     outs |-> [outs EXCEPT ![table[id]] =
                  Append(@, [kind |-> "Timeout", id |-> id])]]

\* cancelAll that stops after the first entry
cancelAllFirstOnly(table, outs, reason) ==
    IF DOMAIN table = {} THEN [table |-> table, outs |-> outs]
    ELSE LET first == CHOOSE i \in DOMAIN table :
                          \A j \in DOMAIN table : i <= j
         IN  [table |-> EmptyTable,
              outs |-> [outs EXCEPT ![table[first]] =
                           Append(@, [kind |-> reason, id |-> first])]]

\* cancelAll(reason): completes every outstanding entry with an error
\* carrying reason and leaves the table empty
cancelAll(table, outs, reason) ==
    [table |-> EmptyTable,
     outs |-> [r \in DOMAIN outs |->
                  IF \E id \in DOMAIN table : table[id] = r
                  THEN Append(outs[r],
                              [kind |-> reason,
                               id |-> CHOOSE id \in DOMAIN table :
                                          table[id] = r])
                  ELSE outs[r]]]

(***************************************************************************)
(* The state right after construction of each part                         *)
(***************************************************************************)
\* a Spring fresh from NewSpring(config)
SpringStart ==
    /\ config \in Configs
    /\ spring = NewSpring(config)
    /\ op = "NewSpring"
    /\ arg = F(0)
    /\ ret = FALSE
    /\ pre = NewSpring(config)
    /\ nCalls = 0
    /\ nTicks = 0
    /\ frame = 0
    /\ tickInterval = 0
    /\ fade = NewOpacitySpring(config)
    /\ fadeOp = "NewOpacitySpring"
    /\ fadeReq = F(0)
    /\ fadeRet = FALSE
    /\ fadePre = NewOpacitySpring(config)
    /\ nFadeCalls = 0
    /\ nFadeTicks = 0
    /\ position = NewPositionSpring(config)
    /\ posOp = "NewPositionSpring"
    /\ posRet = FALSE
    /\ posPre = NewPositionSpring(config)
    /\ nPosCalls = 0
    /\ nPosTicks = 0

\* the goroutines of the program that use the registry
Goroutines == 1 .. MaxGoroutines

\* a goroutine that has not called the registry yet
NotStarted == [pc |-> "ready", call |-> "", theme |-> [ID |-> ""]]

\* package theme after its variable initialisers and init() have run
ThemeStart ==
    /\ Current = PackageInit.Current
    /\ Available = PackageInit.Available
    /\ env \in {""}
    /\ themeOp = [name |-> "init", arg |-> ""]
    /\ themeRet = "nil"
    /\ preCurrent = PackageInit.Current
    /\ preAvailable = PackageInit.Available
    /\ nThemeOps = 0
    /\ goroutines = [g \in Goroutines |-> NotStarted]
    /\ race = FALSE
    /\ fatal = ""
    /\ firstStyle = [build \in Builds |-> NotBuilt]

\* a bridge that has just started its renderer subprocess
BridgeStart ==
    /\ bridge = "Connected"
    /\ pending = EmptyTable
    /\ reqState = [r \in Requests |-> "new"]
    /\ reqId = [r \in Requests |-> 0]
    /\ outcomes = [r \in Requests |-> <<>>]
    /\ nextId = 1
    /\ toRenderer = <<>>
    /\ rendering = {}
    /\ toBridge = <<>>
    /\ dropped = 0
    /\ restarts = 0
    /\ bridgeOp = [name |-> "start", r |-> 0, id |-> 0]
    /\ prePending = EmptyTable
    /\ preOutcomes = [r \in Requests |-> <<>>]

(***************************************************************************)
(* Spring: the state machine of one Spring driven by its callers           *)
(***************************************************************************)
\* float64 arguments the callers pass
TargetValues == {F(0), F(Scale), F(-2 * Scale), NaN, Inf(1)}
CurrentValues == {F(0), F(Scale), NaN}

SpringInit == SpringStart /\ ThemeStart /\ BridgeStart

CallSetTarget ==
    /\ nCalls < MaxCalls
    /\ nTicks <= MaxEarlyTicks
    /\ \E t \in TargetValues :
          /\ spring' = SetTarget(spring, t)
          /\ arg' = t
    /\ op' = "SetTarget"
    /\ pre' = spring
    /\ nCalls' = nCalls + 1
    /\ UNCHANGED <<config, ret, nTicks, frame, tickInterval>>
    /\ UNCHANGED fadeVars
    /\ UNCHANGED positionVars
    /\ UNCHANGED themeVars
    /\ UNCHANGED bridgeVars

CallSetCurrent ==
    /\ nCalls < MaxCalls
    /\ nTicks <= MaxEarlyTicks
    /\ \E v \in CurrentValues :
          /\ spring' = SetCurrent(spring, v)
          /\ arg' = v
    /\ op' = "SetCurrent"
    /\ pre' = spring
    /\ nCalls' = nCalls + 1
    /\ UNCHANGED <<config, ret, nTicks, frame, tickInterval>>
    /\ UNCHANGED fadeVars
    /\ UNCHANGED positionVars
    /\ UNCHANGED themeVars
    /\ UNCHANGED bridgeVars

CallUpdate ==
    /\ spring' = Update(spring, config).s
    /\ ret' = Update(spring, config).ret
    /\ op' = "Update"
    /\ arg' = F(0)
    /\ pre' = spring
    /\ nTicks' = IF nTicks <= MaxEarlyTicks THEN nTicks + 1 ELSE nTicks
    /\ frame' = 1 - frame
    /\ UNCHANGED <<config, nCalls, tickInterval>>
    /\ UNCHANGED fadeVars
    /\ UNCHANGED positionVars
    /\ UNCHANGED themeVars
    /\ UNCHANGED bridgeVars

SpringNext == CallSetTarget \/ CallSetCurrent \/ CallUpdate

SpecSpring == SpringInit /\ [][SpringNext]_vars

\* Update is scheduled on every TickMsg for as long as the spring is active
SpecSpringLive == SpecSpring /\ WF_vars(CallUpdate)

(***************************************************************************)
(* Claims about Spring                                                     *)
(***************************************************************************)
\* C1: idempotence of settling. An Update call on a Spring whose IsActive()
\* is false returns false and leaves position, velocity, target (and the
\* active flag) unchanged; as the spring is then still inactive this holds
\* for every further call.
C1_InactiveUpdateIsNoOp ==
    [][(~IsActive(spring) /\ op' = "Update")
          => (spring' = spring /\ ret' = FALSE)]_vars

\* an Update has just run on a spring that was resting away from 0
C1_Witness ==
    /\ op = "Update"
    /\ ~IsActive(pre)
    /\ Value(pre) = F(Scale)
    /\ nTicks >= 2

\* |x| < 0.5 written as -0.5 < x < 0.5
WithinThreshold(x) ==
    FLt(FNeg(F(Scale \div 2)), x) /\ FLt(x, F(Scale \div 2))

\* C2: settling rule. After Update on an active spring: if the stepped
\* position is within 0.5 of the target and the stepped velocity within 0.5
\* of zero, position = target, velocity = 0, inactive, returns false;
\* otherwise the spring keeps the stepped position and velocity, stays
\* active and Update returns true. Update's result always equals IsActive().
C2_SettlingRule ==
    op = "Update" =>
        /\ ret = IsActive(spring)
        /\ IsActive(pre) =>
              LET st == HarmonicaUpdate(NewHarmonicaSpring(config),
                                        pre.current, pre.velocity, pre.target)
              IN  IF /\ WithinThreshold(FSub(st.pos, pre.target))
                     /\ WithinThreshold(st.vel)
                  THEN /\ spring.current = pre.target
                       /\ spring.velocity = F(0)
                       /\ spring.target = pre.target
                       /\ ~IsActive(spring)
                       /\ ret = FALSE
                  ELSE /\ spring.current = st.pos
                       /\ spring.velocity = st.vel
                       /\ spring.target = pre.target
                       /\ IsActive(spring)
                       /\ ret = TRUE

\* an Update has just settled a spring that was moving: the stepped position
\* was not yet the target and was snapped to it
C2_Witness ==
    /\ op = "Update"
    /\ IsActive(pre)
    /\ ~IsActive(spring)
    /\ pre.velocity # F(0)
    /\ HarmonicaUpdate(NewHarmonicaSpring(config),
                       pre.current, pre.velocity, pre.target).pos # pre.target
    /\ spring.current = pre.target

\* an Update has just left a moving spring active
C2_WitnessActive ==
    /\ op = "Update"
    /\ IsActive(pre)
    /\ IsActive(spring)
    /\ ret = TRUE
    /\ IsFin(spring.current)

\* C3: every animation's lifetime is bounded by settling. An active spring
\* that keeps being updated eventually becomes inactive.
C3_AlwaysSettles == IsActive(spring) ~> ~IsActive(spring)

AllFinite(s) == IsFin(s.current) /\ IsFin(s.velocity) /\ IsFin(s.target)

\* C3, finite case: an active spring whose position, velocity and target are
\* finite numbers, and that is not retargeted any more, eventually becomes
\* inactive.
C3_FiniteSettles ==
    (IsActive(spring) /\ AllFinite(spring) /\ nCalls = MaxCalls)
        ~> ~IsActive(spring)

\* C15: rest invariant. In every state reached from NewSpring by SetTarget,
\* SetCurrent and Update calls, a spring that is not active holds its target
\* as its position (the very float64 value, also when that is NaN) and has
\* velocity 0.
C15_RestInvariant ==
    ~IsActive(spring) =>
        Value(spring) = spring.target /\ spring.velocity = F(0)

\* a moving spring has just been put to rest by SetCurrent
C15_Witness ==
    /\ op = "SetCurrent"
    /\ IsActive(pre)
    /\ pre.velocity # F(0)
    /\ pre.target # arg
    /\ ~IsActive(spring)

\* a spring has just come to rest by settling
C15_WitnessSettled ==
    /\ op = "Update"
    /\ IsActive(pre)
    /\ ~IsActive(spring)
    /\ spring.target = F(Scale)

\* C16: SetCurrent(v) takes effect at once and cancels the animation in
\* flight: afterwards position = target = v, velocity = 0 and the spring is
\* inactive, whatever target was pending. SetTarget(b) after the spring was
\* put to rest at a leaves an active spring at a, at rest, heading to b.
C16_SetCurrentCancels ==
    /\ op = "SetCurrent" =>
          /\ Value(spring) = arg
          /\ spring.target = arg
          /\ spring.velocity = F(0)
          /\ ~IsActive(spring)
    /\ op = "SetTarget" /\ ~IsActive(pre) =>
          /\ Value(spring) = Value(pre)
          /\ spring.velocity = F(0)
          /\ spring.target = arg
          /\ IsActive(spring)

\* SetTarget(b), a tick, then SetCurrent(a) with a # b: the move is discarded
C16_Witness ==
    /\ op = "SetCurrent"
    /\ IsActive(pre)
    /\ pre.target # arg
    /\ Value(pre) # arg
    /\ spring.target = arg

\* SetCurrent(1.0) followed at once by SetTarget(b), b # 1.0
C16_WitnessThenSetTarget ==
    /\ op = "SetTarget"
    /\ nCalls = 2
    /\ nTicks = 0
    /\ Value(spring) = F(Scale)
    /\ spring.target # F(Scale)
    /\ IsActive(spring)

\* C17: SetTarget(t) changes only the target and the active flag. Position
\* and velocity are kept, also in mid-flight, and the spring is active after
\* the call even when t equals the current position.
C17_SetTargetFrame ==
    op = "SetTarget" =>
        /\ Value(spring) = Value(pre)
        /\ spring.velocity = pre.velocity
        /\ spring.target = arg
        /\ IsActive(spring)

\* a spring retargeted in mid-flight
C17_Witness ==
    /\ op = "SetTarget"
    /\ IsActive(pre)
    /\ pre.velocity # F(0)
    /\ pre.target # arg
    /\ spring.velocity = pre.velocity

\* SetTarget(t) on a resting spring with t its position
C17_WitnessSamePosition ==
    /\ op = "SetTarget"
    /\ ~IsActive(pre)
    /\ arg = Value(pre)
    /\ IsActive(spring)

(***************************************************************************)
(* Theme: the registry driven by the process and its environment           *)
(***************************************************************************)
\* values AGENTUI_THEME takes: unset/empty, theme IDs, paths
EnvValues ==
    {"", "charm-dark", "charm-light", "charm-auto", "cyberpunk", "neon",
     "/themes/missing.json"} \cup DOMAIN FileSystem

\* names passed to SetTheme
ThemeNames ==
    {"charm-dark", "charm-light", "charm-auto", "cyberpunk", "", "neon"}

\* a theme defined in Go code by an application
NeonTheme ==
    [ID |-> "neon", Name |-> "Neon", Description |-> "", Author |-> "",
     Version |-> "",
     Colors |-> [CharmDarkColors EXCEPT !.Primary = Color("#39ff14")],
     Styles |-> BuildStyles([CharmDarkColors EXCEPT
                                !.Primary = Color("#39ff14")])]

\* themes passed to Register
RegisterArgs ==
    {CharmDark, CharmLight, NeonTheme,
     LoadThemeFromFile("/themes/dark.json").theme}

ThemeInit ==
    SpringStart /\ ThemeStart /\ BridgeStart /\ config = DefaultSpringConfig

\* the environment variable is set before or while the process runs
Setenv ==
    /\ \E v \in EnvValues :
          /\ v # env
          /\ env' = v
          /\ themeOp' = [name |-> "setenv", arg |-> v]
    /\ themeRet' = "nil"
    /\ preCurrent' = Current
    /\ preAvailable' = Available
    /\ UNCHANGED <<Current, Available, nThemeOps>>
    /\ UNCHANGED goVars
    /\ UNCHANGED springVars
    /\ UNCHANGED bridgeVars

CallSetTheme ==
    /\ nThemeOps < MaxThemeOps
    /\ \E name \in ThemeNames :
          /\ Current' = SetTheme(Current, Available, name).Current
          /\ themeRet' = SetTheme(Current, Available, name).ok
          /\ themeOp' = [name |-> "SetTheme", arg |-> name]
    /\ preCurrent' = Current
    /\ preAvailable' = Available
    /\ nThemeOps' = nThemeOps + 1
    /\ UNCHANGED <<Available, env>>
    /\ UNCHANGED goVars
    /\ UNCHANGED springVars
    /\ UNCHANGED bridgeVars

CallRegister ==
    /\ nThemeOps < MaxThemeOps
    /\ \E t \in RegisterArgs :
          /\ Available' = Register(Available, t)
          /\ themeOp' = [name |-> "Register", arg |-> t.ID, theme |-> t]
    /\ themeRet' = "nil"
    /\ preCurrent' = Current
    /\ preAvailable' = Available
    /\ nThemeOps' = nThemeOps + 1
    /\ UNCHANGED <<Current, env>>
    /\ UNCHANGED goVars
    /\ UNCHANGED springVars
    /\ UNCHANGED bridgeVars

CallLoadThemeFromEnv ==
    /\ nThemeOps < MaxThemeOps
    /\ Current' = LoadThemeFromEnv(Current, Available, env).Current
    /\ Available' = LoadThemeFromEnv(Current, Available, env).Available
    /\ themeRet' = LoadThemeFromEnv(Current, Available, env).err
    /\ themeOp' = [name |-> "LoadThemeFromEnv", arg |-> env]
    /\ preCurrent' = Current
    /\ preAvailable' = Available
    /\ nThemeOps' = nThemeOps + 1
    /\ UNCHANGED env
    /\ UNCHANGED goVars
    /\ UNCHANGED springVars
    /\ UNCHANGED bridgeVars

\* directories passed to LoadThemesFromDirectory
DirectoryArgs == {"/themes", "/nowhere"}

CallLoadThemesFromDirectory ==
    /\ nThemeOps < MaxThemeOps
    /\ \E dir \in DirectoryArgs :
          /\ Available' = LoadThemesFromDirectory(Available, dir).Available
          /\ themeRet' =
                 [count |-> LoadThemesFromDirectory(Available, dir).count,
                  errors |-> LoadThemesFromDirectory(Available, dir).errors]
          /\ themeOp' = [name |-> "LoadThemesFromDirectory", arg |-> dir]
    /\ preCurrent' = Current
    /\ preAvailable' = Available
    /\ nThemeOps' = nThemeOps + 1
    /\ UNCHANGED <<Current, env>>
    /\ UNCHANGED goVars
    /\ UNCHANGED springVars
    /\ UNCHANGED bridgeVars

ThemeNext ==
    \/ Setenv
    \/ CallSetTheme
    \/ CallRegister
    \/ CallLoadThemeFromEnv
    \/ CallLoadThemesFromDirectory

SpecTheme == ThemeInit /\ [][ThemeNext]_vars

(***************************************************************************)
(* Claims about the theme registry                                         *)
(***************************************************************************)
\* the path names an existing file that can be read and decodes as a theme
IsThemeFile(path) ==
    /\ path \in DOMAIN FileSystem
    /\ FileSystem[path].readable
    /\ FileSystem[path].data.ok

\* C7: theme selection by environment. When AGENTUI_THEME is a registered
\* ID, LoadThemeFromEnv returns nil and Current is the theme registered
\* under it; when it is otherwise the path of an existing, readable,
\* decodable theme file, LoadThemeFromEnv returns nil, the file's theme is
\* registered under the id found in the file and is Current. In both cases
\* the active theme's ID is a key of Available.
C7_EnvSelectsTheme ==
    (themeOp.name = "LoadThemeFromEnv" /\ themeOp.arg # "") =>
        /\ themeOp.arg \in DOMAIN preAvailable =>
              /\ themeRet = "nil"
              /\ Current = preAvailable[themeOp.arg]
              /\ Current.ID \in DOMAIN Available
        /\ (themeOp.arg \notin DOMAIN preAvailable
               /\ IsThemeFile(themeOp.arg)) =>
              /\ themeRet = "nil"
              /\ Current.ID = FileSystem[themeOp.arg].data.tj.id
              /\ Current.Name = FileSystem[themeOp.arg].data.tj.name
              /\ Current.Colors.Primary =
                     Color(FileSystem[themeOp.arg].data.tj.colors.primary)
              /\ Current.ID \in DOMAIN Available
              /\ Available[Current.ID] = Current

\* LoadThemeFromEnv has just loaded, registered and selected a theme file
C7_Witness ==
    /\ themeOp = [name |-> "LoadThemeFromEnv",
                  arg |-> "/themes/cyberpunk.json"]
    /\ "cyberpunk" \notin DOMAIN preAvailable
    /\ Current.ID = "cyberpunk"
    /\ preCurrent.ID # "cyberpunk"

\* LoadThemeFromEnv has just selected a registered theme by its ID
C7_WitnessID ==
    /\ themeOp = [name |-> "LoadThemeFromEnv", arg |-> "charm-auto"]
    /\ Current.ID = "charm-auto"
    /\ preCurrent.ID # "charm-auto"

\* C8: absence of the setting. With AGENTUI_THEME unset or empty,
\* LoadThemeFromEnv returns nil and leaves Current and Available unchanged;
\* when it is the first call of the process the active theme is still the
\* built-in charm-dark.
C8_EmptyEnvChangesNothing ==
    themeOp = [name |-> "LoadThemeFromEnv", arg |-> ""] =>
        /\ themeRet = "nil"
        /\ Current = preCurrent
        /\ Available = preAvailable
        /\ nThemeOps = 1 => Current.ID = "charm-dark"

\* LoadThemeFromEnv has just run with the variable empty while another
\* theme than the default was active
C8_Witness ==
    /\ themeOp = [name |-> "LoadThemeFromEnv", arg |-> ""]
    /\ preCurrent.ID = "charm-light"

\* LoadThemeFromEnv has just run with the variable empty as the first call
C8_WitnessFirst ==
    /\ themeOp = [name |-> "LoadThemeFromEnv", arg |-> ""]
    /\ nThemeOps = 1

\* C9: initial state. Right after package initialization Current is the
\* charm-dark theme and Available holds exactly charm-dark, charm-light and
\* charm-auto, each mapped to the theme carrying that ID.
C9_InitialRegistry ==
    themeOp.name = "init" =>
        /\ Current.ID = "charm-dark"
        /\ Current.Colors.Primary = Color("212")
        /\ DOMAIN Available = {"charm-dark", "charm-light", "charm-auto"}
        /\ \A id \in DOMAIN Available : Available[id].ID = id
        /\ Available["charm-dark"] = Current

\* the process has just been initialised: no theme call has been made
C9_Witness ==
    /\ themeOp.name = "init"
    /\ nThemeOps = 0
    /\ Cardinality(DOMAIN Available) > 0

\* C10: SetTheme(name) returns true and makes Current a copy of
\* Available[name] when name is registered; for an unregistered name it
\* returns false and leaves Current unchanged. Available is unchanged in
\* both cases.
C10_SetTheme ==
    themeOp.name = "SetTheme" =>
        /\ Available = preAvailable
        /\ themeRet = (themeOp.arg \in DOMAIN preAvailable)
        /\ themeOp.arg \in DOMAIN preAvailable =>
              Current = preAvailable[themeOp.arg]
        /\ themeOp.arg \notin DOMAIN preAvailable => Current = preCurrent

\* SetTheme has just switched to another registered theme
C10_Witness ==
    /\ themeOp = [name |-> "SetTheme", arg |-> "charm-light"]
    /\ themeRet = TRUE
    /\ Current.ID = "charm-light"
    /\ preCurrent.ID = "charm-dark"

\* SetTheme has just been refused for an unregistered name while another
\* theme than the default was active
C10_WitnessUnknown ==
    /\ themeOp = [name |-> "SetTheme", arg |-> "neon"]
    /\ themeRet = FALSE
    /\ Current.ID = "charm-light"

(***************************************************************************)
(* Bridge: request calls, the renderer, the read loop, timeouts, teardown  *)
(***************************************************************************)
BridgeInit ==
    SpringStart /\ ThemeStart /\ BridgeStart /\ config = DefaultSpringConfig

\* every bridge step records itself and leaves the other parts alone
Step(name, r, id) ==
    /\ bridgeOp' = [name |-> name, r |-> r, id |-> id]
    /\ prePending' = pending
    /\ preOutcomes' = outcomes
    /\ UNCHANGED springVars
    /\ UNCHANGED themeVars

\* request(m, timeout): assign an id, register it, write the line, as one
\* atomic unit; the caller then awaits completion or timeout
Request(r) ==
    /\ bridge = "Connected"
    /\ reqState[r] = "new"
    /\ pending' = register(pending, nextId, r)
    /\ reqId' = [reqId EXCEPT ![r] = nextId]
    /\ reqState' = [reqState EXCEPT ![r] = "waiting"]
    /\ toRenderer' = Append(toRenderer, [id |-> nextId])
    /\ nextId' = nextId + 1
    /\ Step("request", r, nextId)
    /\ UNCHANGED <<bridge, outcomes, rendering, toBridge, dropped, restarts>>

\* request on a bridge that has given up restarting: TransportUnavailable,
\* nothing is registered or sent
RequestUnavailable(r) ==
    /\ bridge = "Disconnected"
    /\ restarts = MaxRestarts
    /\ reqState[r] = "new"
    /\ reqState' = [reqState EXCEPT ![r] = "unsent"]
    /\ outcomes' = [outcomes EXCEPT ![r] =
                       Append(@, [kind |-> "TransportUnavailable", id |-> 0])]
    /\ Step("unavailable", r, 0)
    /\ UNCHANGED <<bridge, pending, reqId, nextId, toRenderer, rendering,
                   toBridge, dropped, restarts>>

\* the Dispatch Loop reads the next request line and shows its view
RendererRead ==
    /\ toRenderer # <<>>
    /\ rendering' = rendering \cup {Head(toRenderer).id}
    /\ toRenderer' = Tail(toRenderer)
    /\ Step("read", 0, Head(toRenderer).id)
    /\ UNCHANGED <<bridge, pending, reqState, reqId, outcomes, nextId,
                   toBridge, dropped, restarts>>

\* the user completes or cancels an interaction: the renderer writes exactly
\* one reply line carrying the id of the request
RendererReply(id) ==
    /\ id \in rendering
    /\ rendering' = rendering \ {id}
    /\ toBridge' = Append(toBridge, [id |-> id])
    /\ Step("reply", 0, id)
    /\ UNCHANGED <<bridge, pending, reqState, reqId, outcomes, nextId,
                   toRenderer, dropped, restarts>>

\* the read loop takes the next reply line and completes its entry
BridgeReceive ==
    /\ bridge = "Connected"
    /\ toBridge # <<>>
    /\ LET id == Head(toBridge).id
           res == complete(pending, outcomes, id,
                           [kind |-> "reply", id |-> id])
       IN  /\ pending' = res.table
           /\ outcomes' = res.outs
           /\ dropped' = dropped + res.dropped
           /\ reqState' = [r \in Requests |->
                              IF res.outs[r] # outcomes[r]
                              THEN "done" ELSE reqState[r]]
           /\ Step("receive", 0, id)
    /\ toBridge' = Tail(toBridge)
    /\ UNCHANGED <<bridge, reqId, nextId, toRenderer, rendering, restarts>>

\* the deadline of an outstanding request elapses
Timeout(r) ==
    /\ reqId[r] \in DOMAIN pending
    /\ pending[reqId[r]] = r
    /\ pending' = expire(pending, outcomes, reqId[r]).table
    /\ outcomes' = expire(pending, outcomes, reqId[r]).outs
    /\ reqState' = [reqState EXCEPT ![r] = "done"]
    /\ Step("timeout", r, reqId[r])
    /\ UNCHANGED <<bridge, reqId, nextId, toRenderer, rendering, toBridge,
                   dropped, restarts>>

\* the renderer subprocess exits or reading from it fails: cancelAll, then
\* Disconnected; what was in the pipes is lost with the process
TransportClose ==
    /\ bridge = "Connected"
    /\ pending' = cancelAll(pending, outcomes, "TransportClosed").table
    /\ outcomes' = cancelAll(pending, outcomes, "TransportClosed").outs
    /\ reqState' = [r \in Requests |->
                       IF \E id \in DOMAIN pending : pending[id] = r
                       THEN "done" ELSE reqState[r]]
    /\ bridge' = "Disconnected"
    /\ toRenderer' = <<>>
    /\ rendering' = {}
    /\ toBridge' = <<>>
    /\ Step("close", 0, 0)
    /\ UNCHANGED <<reqId, nextId, dropped, restarts>>

\* a restart attempt succeeds: a new renderer with fresh pipes
Restart ==
    /\ bridge = "Disconnected"
    /\ restarts < MaxRestarts
    /\ restarts' = restarts + 1
    /\ bridge' = "Connected"
    /\ Step("restart", 0, 0)
    /\ UNCHANGED <<pending, reqState, reqId, outcomes, nextId, toRenderer,
                   rendering, toBridge, dropped>>

BridgeNext ==
    \/ \E r \in Requests : Request(r)
    \/ \E r \in Requests : RequestUnavailable(r)
    \/ RendererRead
    \/ \E id \in rendering : RendererReply(id)
    \/ BridgeReceive
    \/ \E r \in Requests : Timeout(r)
    \/ TransportClose
    \/ Restart

SpecBridge == BridgeInit /\ [][BridgeNext]_vars

\* every request carries a deadline and the deadline timer fires
SpecBridgeLive == SpecBridge /\ \A r \in Requests : WF_vars(Timeout(r))

(***************************************************************************)
(* Claims about the Transport Bridge and the Correlation Table             *)
(***************************************************************************)
Errors == {"Timeout", "TransportClosed"}

\* C4: exactly one outcome per request. A request sent through request is
\* eventually observed by its caller as one reply carrying its id or as one
\* Timeout / TransportClosed error; the caller never observes two outcomes.
C4_ExactlyOneOutcome ==
    \A r \in Requests :
        /\ [](Len(outcomes[r]) <= 1)
        /\ [](reqState[r] = "waiting" =>
                <>(/\ reqState[r] = "done"
                   /\ Len(outcomes[r]) = 1
                   /\ outcomes[r][1].id = reqId[r]
                   /\ outcomes[r][1].kind \in {"reply"} \cup Errors))
        /\ [](reqState[r] \in {"new", "waiting"} <=> outcomes[r] = <<>>)

\* both requests were sent and have got their outcome, one a reply and the
\* other an error
C4_Witness ==
    /\ \A r \in Requests : reqState[r] = "done" /\ Len(outcomes[r]) = 1
    /\ \E r \in Requests : outcomes[r][1].kind = "reply"
    /\ \E r \in Requests : outcomes[r][1].kind \in Errors

\* C5: timeout handling. When the deadline of a request elapses the call
\* fails with Timeout and the Correlation Table holds no entry for its id;
\* a reply arriving later for that id is dropped: no caller is completed, no
\* error is propagated, the table is unchanged.
C5_TimeoutAndLateReply ==
    /\ bridgeOp.name = "timeout" =>
          /\ outcomes[bridgeOp.r] = <<[kind |-> "Timeout", id |-> bridgeOp.id]>>
          /\ bridgeOp.id \notin DOMAIN pending
          /\ \A r \in Requests \ {bridgeOp.r} : outcomes[r] = preOutcomes[r]
    /\ \A r \in Requests :
          (Len(outcomes[r]) > 0 /\ outcomes[r][1].kind = "Timeout") =>
              /\ reqId[r] \notin DOMAIN pending
              /\ Len(outcomes[r]) = 1
    /\ (bridgeOp.name = "receive" /\ bridgeOp.id \notin DOMAIN prePending) =>
          /\ outcomes = preOutcomes
          /\ pending = prePending

\* the read loop has just received the reply of a request that had timed
\* out
C5_Witness ==
    /\ bridgeOp.name = "receive"
    /\ dropped > 0
    /\ \E r \in Requests :
          /\ reqId[r] = bridgeOp.id
          /\ outcomes[r] = <<[kind |-> "Timeout", id |-> bridgeOp.id]>>

\* C6: transport teardown. When the renderer exits or reading fails while
\* requests are outstanding, every outstanding request is completed with
\* TransportClosed, no request is left waiting and the Correlation Table is
\* empty.
C6_Teardown ==
    bridgeOp.name = "close" =>
        /\ DOMAIN pending = {}
        /\ bridge = "Disconnected"
        /\ \A r \in Requests : reqState[r] # "waiting"
        /\ \A id \in DOMAIN prePending :
              outcomes[prePending[id]] =
                  <<[kind |-> "TransportClosed", id |-> id]>>
        /\ \A r \in Requests :
              (\A id \in DOMAIN prePending : prePending[id] # r) =>
                  outcomes[r] = preOutcomes[r]

\* the transport has just been torn down with two requests outstanding
C6_Witness ==
    /\ bridgeOp.name = "close"
    /\ Cardinality(DOMAIN prePending) = 2
    /\ \A r \in Requests : Len(outcomes[r]) = 1

(***************************************************************************)
(* Rendering: the functions that read the theme, beside those changing it  *)
(***************************************************************************)
\* lipgloss.TerminalColor values handed to toChromaColor
TerminalColors ==
    {Color("#7D56F4"), Color("#ff00fg"), Color("212"), Color("red"),
     Color(""),
     AdaptiveColor("#D946EF", "#FF87D7"), AdaptiveColor("235", "252"),
     AdaptiveColor("", ""),
     CompleteColor("#0000ff", "21", "4"), CompleteColor("", "21", "4"),
     CompleteColor("", "", "4"), CompleteColor("0000ff", "", ""),
     CompleteAdaptiveColor(CompleteColor("#ffffff", "15", "7"),
                           CompleteColor("#000000", "0", "0")),
     CompleteAdaptiveColor(CompleteColor("", "", ""),
                           CompleteColor("", "63", "4")),
     NoColor}

\* the functions that take the theme as an input
RenderOps ==
    {"BuildChromaStyle", "toChromaColor", "BuildStyles", "ExportThemeToJSON"}

\* the functions that write Current or Available
ThemeWriters ==
    {"SetTheme", "Register", "LoadThemeFromEnv", "LoadThemesFromDirectory"}

\* a call that returns out and writes nothing
ReadOnlyCall(name, input, out) ==
    /\ themeOp' = [name |-> name, arg |-> input]
    /\ themeRet' = out
    /\ preCurrent' = Current
    /\ preAvailable' = Available
    /\ UNCHANGED <<Current, Available, env, nThemeOps>>
    /\ UNCHANGED goVars
    /\ UNCHANGED springVars
    /\ UNCHANGED bridgeVars

\* BuildChromaStyle() that stores the converted keyword colour in the theme
CallBuildChromaStyleInPlace ==
    /\ \E build \in Builds :
          /\ themeOp' = [name |-> "BuildChromaStyle", arg |-> build]
          /\ themeRet' = BuildChromaStyle(Current, build)
          /\ Current' =
                 [Current EXCEPT !.Colors.Primary =
                     Color(toChromaColorHex(Current.Colors.Primary))]
    /\ preCurrent' = Current
    /\ preAvailable' = Available
    /\ UNCHANGED <<Available, env, nThemeOps>>
    /\ UNCHANGED goVars
    /\ UNCHANGED springVars
    /\ UNCHANGED bridgeVars

\* BuildChromaStyle(), in either build
CallBuildChromaStyle ==
    /\ \E build \in Builds :
          /\ themeOp' = [name |-> "BuildChromaStyle", arg |-> build]
          /\ themeRet' = BuildChromaStyle(Current, build)
    /\ preCurrent' = Current
    /\ preAvailable' = Available
    /\ UNCHANGED <<Current, Available, env, nThemeOps>>
    /\ UNCHANGED goVars
    /\ UNCHANGED springVars
    /\ UNCHANGED bridgeVars

\* toChromaColor(c), in either build
CallToChromaColor ==
    \E build \in Builds, c \in TerminalColors :
        ReadOnlyCall("toChromaColor", [build |-> build, c |-> c],
                     Convert(build, c))

\* BuildStyles(theme.Current.Colors)
CallBuildStyles ==
    ReadOnlyCall("BuildStyles", Current.ID, BuildStyles(Current.Colors))

\* ExportThemeToJSON(&theme.Current), ExportThemeToJSON(theme.Available[id])
CallExportThemeToJSON ==
    \/ ReadOnlyCall("ExportThemeToJSON", "Current",
                    ExportThemeToJSON(Current))
    \/ \E id \in DOMAIN Available :
          ReadOnlyCall("ExportThemeToJSON", id,
                       ExportThemeToJSON(Available[id]))

\* theme changes in a rendering run are bounded by MaxRenderThemeOps
RenderNext ==
    \/ Setenv
    \/ nThemeOps < MaxRenderThemeOps /\ CallSetTheme
    \/ nThemeOps < MaxRenderThemeOps /\ CallRegister
    \/ nThemeOps < MaxRenderThemeOps /\ CallLoadThemeFromEnv
    \/ nThemeOps < MaxRenderThemeOps /\ CallLoadThemesFromDirectory
    \/ CallBuildChromaStyle
    \/ CallToChromaColor
    \/ CallBuildStyles
    \/ CallExportThemeToJSON

SpecRender == ThemeInit /\ [][RenderNext]_vars

\* C11: the theme is a read-only input to rendering. After a call of
\* BuildChromaStyle, toChromaColor, BuildStyles or ExportThemeToJSON, Current
\* and Available (the registered themes with it) are what they were before
\* the call; and whenever one of them differs from what it was before the
\* last call, that call was SetTheme, Register or a loader.
C11_RenderReadsThemeOnly ==
    /\ themeOp.name \in RenderOps =>
          Current = preCurrent /\ Available = preAvailable
    /\ Current # preCurrent \/ Available # preAvailable =>
          themeOp.name \in ThemeWriters

\* a style built, without a panic, from a theme loaded from a file
C11_Witness ==
    /\ themeOp.name = "BuildChromaStyle"
    /\ Current.ID = "cyberpunk"
    /\ ~themeRet.panic
    /\ Current = preCurrent

\* C12: BuildChromaStyle never panics. For every theme that has become
\* Current (a built-in theme or a theme loaded from JSON, whatever its colour
\* strings), the call returns a style, named "charm".
C12_BuildNeverPanics ==
    themeOp.name = "BuildChromaStyle" =>
        ~themeRet.panic /\ themeRet.Name = "charm"

\* C13: toChromaColor always returns a string that starts with '#'.
C13_AlwaysHex ==
    themeOp.name = "toChromaColor" => HasHashPrefix(themeRet)

\* a parsed style entry of colour hex (digits without '#')
Styled(hex, bold, italic) ==
    [err |-> FALSE, Colour |-> hex, Bold |-> bold, Italic |-> italic]

\* C14: under charm-dark BuildChromaStyle styles keywords #FF87D7 bold,
\* strings #00AF5F, numbers #FF87D7, comments #808080 italic, function names
\* #7D56F4 and types #00AF5F.
C14_CharmDarkMapping ==
    themeOp.name = "BuildChromaStyle" /\ Current = CharmDark =>
        /\ ~themeRet.panic
        /\ themeRet.entries.Keyword = Styled("FF87D7", TRUE, FALSE)
        /\ themeRet.entries.LiteralString = Styled("00AF5F", FALSE, FALSE)
        /\ themeRet.entries.LiteralNumber = Styled("FF87D7", FALSE, FALSE)
        /\ themeRet.entries.Comment = Styled("808080", FALSE, TRUE)
        /\ themeRet.entries.NameFunction = Styled("7D56F4", FALSE, FALSE)
        /\ themeRet.entries.KeywordType = Styled("00AF5F", FALSE, FALSE)

\* What the converting build does give under charm-dark: the mapping of C14
\* but for comments, which take TextDim, #565f89.
C14_ConvertingBuildMapping ==
    /\ themeOp.name = "BuildChromaStyle"
    /\ themeOp.arg = "chroma_test.go"
    /\ Current = CharmDark
    => /\ ~themeRet.panic
       /\ themeRet.entries.Keyword = Styled("FF87D7", TRUE, FALSE)
       /\ themeRet.entries.LiteralString = Styled("00AF5F", FALSE, FALSE)
       /\ themeRet.entries.LiteralNumber = Styled("FF87D7", FALSE, FALSE)
       /\ themeRet.entries.Comment = Styled("565f89", FALSE, TRUE)
       /\ themeRet.entries.NameFunction = Styled("7D56F4", FALSE, FALSE)
       /\ themeRet.entries.KeywordType = Styled("00AF5F", FALSE, FALSE)

\* What the converting build does for themes: it panics exactly on colours
\* that start with '#' and are not hexadecimal numbers.
C12_ConvertingBuildPanics ==
    themeOp.name = "BuildChromaStyle" /\ themeOp.arg = "chroma_test.go" =>
        (themeRet.panic <=> Current.ID = "typo")

(***************************************************************************)
(* OpacitySpring driven by its owner and the frame ticks                   *)
(***************************************************************************)
\* opacities passed to SetOpacity
OpacityValues ==
    {F(0), F(Scale \div 2), F(Scale), F(-Scale), F(3 * Scale),
     NaN, Inf(1), Inf(-1)}

\* the Spring and the PositionSpring of the process are left alone
OpacityFrame ==
    /\ UNCHANGED <<spring, config, op, arg, ret, pre, nCalls, nTicks, frame,
                   tickInterval>>
    /\ UNCHANGED positionVars
    /\ UNCHANGED themeVars
    /\ UNCHANGED bridgeVars

OpacityInit == SpringStart /\ ThemeStart /\ BridgeStart

CallFadeIn ==
    /\ nFadeCalls < MaxCalls
    /\ nFadeTicks <= MaxEarlyTicks
    /\ fade' = FadeIn(fade)
    /\ fadeOp' = "FadeIn"
    /\ fadeReq' = F(Scale)
    /\ fadePre' = fade
    /\ nFadeCalls' = nFadeCalls + 1
    /\ UNCHANGED <<fadeRet, nFadeTicks>>
    /\ OpacityFrame

CallFadeOut ==
    /\ nFadeCalls < MaxCalls
    /\ nFadeTicks <= MaxEarlyTicks
    /\ fade' = FadeOut(fade)
    /\ fadeOp' = "FadeOut"
    /\ fadeReq' = F(0)
    /\ fadePre' = fade
    /\ nFadeCalls' = nFadeCalls + 1
    /\ UNCHANGED <<fadeRet, nFadeTicks>>
    /\ OpacityFrame

CallSetOpacity ==
    /\ nFadeCalls < MaxCalls
    /\ nFadeTicks <= MaxEarlyTicks
    /\ \E opacity \in OpacityValues :
          /\ fade' = SetOpacity(fade, opacity)
          /\ fadeReq' = opacity
    /\ fadeOp' = "SetOpacity"
    /\ fadePre' = fade
    /\ nFadeCalls' = nFadeCalls + 1
    /\ UNCHANGED <<fadeRet, nFadeTicks>>
    /\ OpacityFrame

CallOpacityUpdate ==
    /\ fade' = OpacitySpringUpdate(fade, config).o
    /\ fadeRet' = OpacitySpringUpdate(fade, config).ret
    /\ fadeOp' = "Update"
    /\ fadePre' = fade
    /\ nFadeTicks' =
           IF nFadeTicks <= MaxEarlyTicks THEN nFadeTicks + 1 ELSE nFadeTicks
    /\ UNCHANGED <<fadeReq, nFadeCalls>>
    /\ OpacityFrame

OpacityNext ==
    CallFadeIn \/ CallFadeOut \/ CallSetOpacity \/ CallOpacityUpdate

SpecOpacity == OpacityInit /\ [][OpacityNext]_vars

\* x brought into [0,1]; NaN is in no interval and stays
Clamped(x) ==
    IF IsNaN(x) THEN x
    ELSE IF x.k = "inf" THEN (IF x.v > 0 THEN F(Scale) ELSE F(0))
    ELSE IF x.v < 0 THEN F(0)
    ELSE IF x.v > Scale THEN F(Scale)
    ELSE x

\* C18: fade outcome. A new OpacitySpring is invisible, Opacity() = 0.
\* Whenever an OpacitySpring is inactive its Opacity() is the opacity last
\* asked for, clamped to [0,1]: once a FadeIn has settled Opacity() = 1 and
\* IsVisible() holds, once a FadeOut has settled Opacity() = 0 and
\* IsVisible() does not.
C18_FadeOutcome ==
    /\ fadeOp = "NewOpacitySpring" =>
          Opacity(fade) = F(0) /\ ~IsVisible(fade)
    /\ ~OpacitySpringIsActive(fade) =>
          /\ Opacity(fade) = Clamped(fadeReq)
          /\ fadeReq = F(Scale) =>
                Opacity(fade) = F(Scale) /\ IsVisible(fade)
          /\ fadeReq = F(0) => Opacity(fade) = F(0) /\ ~IsVisible(fade)

\* a FadeIn has settled: the last Update snapped the opacity to 1
C18_Witness ==
    /\ fadeOp = "Update"
    /\ OpacitySpringIsActive(fadePre)
    /\ ~OpacitySpringIsActive(fade)
    /\ fadeReq = F(Scale)
    /\ Value(fadePre.spring) # F(Scale)
    /\ IsVisible(fade)

\* a fade-out from full opacity has settled
C18_WitnessFadeOut ==
    /\ fadeOp = "Update"
    /\ OpacitySpringIsActive(fadePre)
    /\ ~OpacitySpringIsActive(fade)
    /\ fadeReq = F(0)
    /\ nFadeCalls = 2
    /\ ~IsVisible(fade)

\* SetOpacity(3.0) has settled at 1
C18_WitnessClamped ==
    /\ ~OpacitySpringIsActive(fade)
    /\ fadeReq = F(3 * Scale)
    /\ Opacity(fade) = F(Scale)

\* 0 <= x <= 1 as Go evaluates it: false for NaN
InUnitInterval(x) == ~FLt(x, F(0)) /\ ~FLt(F(Scale), x) /\ ~IsNaN(x)

\* C19: opacity range. In every reachable state of an OpacitySpring
\* Opacity() lies in [0,1], and so does the target of the underlying spring.
C19_OpacityRange ==
    InUnitInterval(Opacity(fade)) /\ InUnitInterval(fade.spring.target)

\* C19 for numbers: as long as no NaN was passed to SetOpacity, Opacity()
\* and the target lie in [0,1], also while the spring overshoots.
C19_RangeOfNumbers ==
    [](~IsNaN(fadeReq)) =>
        [](InUnitInterval(Opacity(fade))
             /\ InUnitInterval(fade.spring.target))

\* the underlying spring has overshot 1 and Opacity() reports 1
C19_WitnessOvershoot ==
    /\ FLt(F(Scale), Value(fade.spring))
    /\ Opacity(fade) = F(Scale)

(***************************************************************************)
(* PositionSpring driven by its owner and the frame ticks                  *)
(***************************************************************************)
\* coordinates passed to SetTarget and SetCurrent
Coordinates == {F(0), F(Scale), F(10 * Scale), NaN}

\* the Spring and the OpacitySpring of the process are left alone
PositionFrame ==
    /\ UNCHANGED <<spring, config, op, arg, ret, pre, nCalls, nTicks, frame,
                   tickInterval>>
    /\ UNCHANGED fadeVars
    /\ UNCHANGED themeVars
    /\ UNCHANGED bridgeVars

PositionInit == SpringStart /\ ThemeStart /\ BridgeStart

CallPositionSetTarget ==
    /\ nPosCalls < MaxPosCalls
    /\ nPosTicks <= MaxEarlyTicks
    /\ \E x \in Coordinates, y \in Coordinates :
          position' = PositionSpringSetTarget(position, x, y)
    /\ posOp' = "SetTarget"
    /\ posPre' = position
    /\ nPosCalls' = nPosCalls + 1
    /\ UNCHANGED <<posRet, nPosTicks>>
    /\ PositionFrame

CallPositionSetCurrent ==
    /\ nPosCalls < MaxPosCalls
    /\ nPosTicks <= MaxEarlyTicks
    /\ \E x \in Coordinates, y \in Coordinates :
          position' = PositionSpringSetCurrent(position, x, y)
    /\ posOp' = "SetCurrent"
    /\ posPre' = position
    /\ nPosCalls' = nPosCalls + 1
    /\ UNCHANGED <<posRet, nPosTicks>>
    /\ PositionFrame

CallPositionUpdate ==
    /\ position' = PositionSpringUpdate(position, config).p
    /\ posRet' = PositionSpringUpdate(position, config).ret
    /\ posOp' = "Update"
    /\ posPre' = position
    /\ nPosTicks' =
           IF nPosTicks <= MaxEarlyTicks THEN nPosTicks + 1 ELSE nPosTicks
    /\ UNCHANGED nPosCalls
    /\ PositionFrame

PositionNext ==
    CallPositionSetTarget \/ CallPositionSetCurrent \/ CallPositionUpdate

SpecPosition == PositionInit /\ [][PositionNext]_vars

\* C20: PositionSpring.Update advances both the X and the Y spring on every
\* call, a still-active X not keeping Y from stepping, and returns true iff
\* at least one of them is still animating: its result equals
\* PositionSpring.IsActive() after the call. An axis that has settled is
\* left unchanged while the other continues.
C20_BothAxesStep ==
    posOp = "Update" =>
        /\ position.X = Update(posPre.X, config).s
        /\ position.Y = Update(posPre.Y, config).s
        /\ posRet = (IsActive(position.X) \/ IsActive(position.Y))
        /\ posRet = PositionSpringIsActive(position)
        /\ ~IsActive(posPre.X) => position.X = posPre.X
        /\ ~IsActive(posPre.Y) => position.Y = posPre.Y

\* both axes were moving, X stays active and Y has stepped all the same
C20_Witness ==
    /\ posOp = "Update"
    /\ IsActive(posPre.X)
    /\ IsActive(position.X)
    /\ IsActive(posPre.Y)
    /\ Value(position.Y) # Value(posPre.Y)
    /\ posRet = TRUE

\* X has settled and rests while Y continues
C20_WitnessSettledAxis ==
    /\ posOp = "Update"
    /\ ~IsActive(posPre.X)
    /\ Value(posPre.X) = F(Scale)
    /\ IsActive(posPre.Y)
    /\ IsActive(position.Y)
    /\ Value(position.Y) # Value(posPre.Y)
    /\ position.X = posPre.X
    /\ posRet = TRUE

\* the last moving axis has settled: Update returns false
C20_WitnessBothSettled ==
    /\ posOp = "Update"
    /\ PositionSpringIsActive(posPre)
    /\ ~PositionSpringIsActive(position)
    /\ posRet = FALSE

(***************************************************************************)
(* The frame tick: TickCmd beside the calls on the animated Spring         *)
(***************************************************************************)
\* TickCmd() is called: a tea.Tick with its delay is handed to the runtime
CallTickCmd ==
    /\ tickInterval' = TickCmd
    /\ op' = "TickCmd"
    /\ arg' = F(0)
    /\ pre' = spring
    /\ UNCHANGED <<spring, config, ret, nCalls, nTicks, frame>>
    /\ UNCHANGED fadeVars
    /\ UNCHANGED positionVars
    /\ UNCHANGED themeVars
    /\ UNCHANGED bridgeVars

TickNext == CallSetTarget \/ CallSetCurrent \/ CallUpdate \/ CallTickCmd

SpecTick == SpringInit /\ [][TickNext]_vars

\* C21: TickCmd sends TickMsg at the spring's FPS. The delay of the tick it
\* builds is 1/FPS of the SpringConfig the animated spring was created
\* with: time.Second / FPS, the frame time harmonica.FPS(FPS) stands for.
C21_TickAtSpringFPS ==
    op = "TickCmd" => tickInterval = Second \div config.FPS

\* C21 for the configs of the package: with DefaultSpringConfig,
\* FastSpringConfig and SlowSpringConfig, all of 60 FPS, the delay is 1/FPS.
C21_TickOfPackageConfigs ==
    op = "TickCmd" /\ config.FPS = 60 =>
        tickInterval = Second \div config.FPS

(***************************************************************************)
(* Claims about the theme registry, continued                              *)
(***************************************************************************)
\* C22: LoadThemeFromEnv failure leaves state untouched. When AGENTUI_THEME
\* is non-empty and is neither a registered ID nor the path of an existing
\* file, or is an existing file that cannot be read or parsed as theme JSON,
\* LoadThemeFromEnv returns a non-nil error and neither Current nor
\* Available changes.
C22_FailureChangesNothing ==
    /\ themeOp.name = "LoadThemeFromEnv"
    /\ themeOp.arg # ""
    /\ themeOp.arg \notin DOMAIN preAvailable
    /\ ~IsThemeFile(themeOp.arg)
    => /\ themeRet # "nil"
       /\ Current = preCurrent
       /\ Available = preAvailable

\* an unknown name has just been refused while charm-light was active
C22_Witness ==
    /\ themeOp = [name |-> "LoadThemeFromEnv", arg |-> "cyberpunk"]
    /\ "cyberpunk" \notin DOMAIN preAvailable
    /\ themeRet = "unknown theme"
    /\ preCurrent.ID = "charm-light"
    /\ Current.ID = "charm-light"

\* a file that is no theme JSON has just been refused
C22_WitnessBrokenFile ==
    /\ themeOp = [name |-> "LoadThemeFromEnv", arg |-> "/themes/broken.json"]
    /\ themeRet = "failed to load theme"
    /\ preCurrent.ID = "charm-auto"
    /\ Current.ID = "charm-auto"

\* a file that cannot be read has just been refused
C22_WitnessUnreadable ==
    /\ themeOp = [name |-> "LoadThemeFromEnv", arg |-> "/themes/private.json"]
    /\ themeRet = "failed to load theme"
    /\ Available = preAvailable

\* C23: ID takes precedence over path. When the AGENTUI_THEME value is both
\* a registered theme ID and the path of an existing file, LoadThemeFromEnv
\* selects the registered theme, does not read the file (an unreadable file
\* raises no error, a readable one is not loaded) and registers nothing new.
C23_IDBeforePath ==
    /\ themeOp.name = "LoadThemeFromEnv"
    /\ themeOp.arg \in DOMAIN preAvailable
    /\ StatOK(themeOp.arg)
    => /\ themeRet = "nil"
       /\ Current = preAvailable[themeOp.arg]
       /\ Available = preAvailable

\* AGENTUI_THEME=charm-light with a theme file of that name in the working
\* directory: the built-in theme is selected, the file's theme is not loaded
C23_Witness ==
    /\ themeOp = [name |-> "LoadThemeFromEnv", arg |-> "charm-light"]
    /\ IsThemeFile("charm-light")
    /\ preCurrent.ID # "charm-light"
    /\ Current.ID = "charm-light"
    /\ "cyberpunk" \notin DOMAIN Available

\* AGENTUI_THEME=charm-auto with an unreadable entry of that name
C23_WitnessUnreadable ==
    /\ themeOp = [name |-> "LoadThemeFromEnv", arg |-> "charm-auto"]
    /\ StatOK("charm-auto")
    /\ ~FileSystem["charm-auto"].readable
    /\ themeRet = "nil"
    /\ Current.ID = "charm-auto"

\* C24: Register(t) makes Available[t.ID] refer to t, replacing any theme
\* registered under that ID before (the last registration wins, also for a
\* loaded file whose id is a built-in ID), and never changes Current: when
\* the replaced ID is the active theme's, Current keeps the values of the
\* theme selected before.
C24_RegisterReplaces ==
    /\ themeOp.name = "Register" =>
          /\ Available[themeOp.arg] = themeOp.theme
          /\ DOMAIN Available = DOMAIN preAvailable \cup {themeOp.arg}
          /\ \A id \in DOMAIN preAvailable \ {themeOp.arg} :
                Available[id] = preAvailable[id]
          /\ Current = preCurrent
    /\ (/\ themeOp.name = "LoadThemeFromEnv"
        /\ themeOp.arg \notin DOMAIN preAvailable
        /\ IsThemeFile(themeOp.arg)) =>
          Available[FileSystem[themeOp.arg].data.tj.id] =
              LoadThemeFromFile(themeOp.arg).theme

\* the active theme's ID has just been registered anew with other values:
\* Current still holds the old ones
C24_Witness ==
    /\ themeOp.name = "Register"
    /\ themeOp.arg = Current.ID
    /\ themeOp.arg \in DOMAIN preAvailable
    /\ preAvailable[themeOp.arg] # themeOp.theme
    /\ Available[Current.ID] # Current
    /\ Current = preCurrent

\* a loaded file has just replaced the built-in charm-dark
C24_WitnessFile ==
    /\ themeOp = [name |-> "LoadThemeFromEnv", arg |-> "/themes/dark.json"]
    /\ Available["charm-dark"].Name = "My Dark"
    /\ preAvailable["charm-dark"].Name = "Charm Dark"

BuiltinIDs == {"charm-dark", "charm-light", "charm-auto"}

\* C25: registry invariant. After any sequence of Register, SetTheme,
\* LoadThemeFromEnv and LoadThemesFromDirectory calls from package
\* initialization on, no ID is ever removed from Available (charm-dark,
\* charm-light and charm-auto stay registered) and Current.ID is always a
\* key of Available.
C25_RegistryInvariant ==
    /\ DOMAIN preAvailable \subseteq DOMAIN Available
    /\ BuiltinIDs \subseteq DOMAIN Available
    /\ Current.ID \in DOMAIN Available

\* a directory of themes has been loaded and one of its themes selected
C25_Witness ==
    /\ themeOp = [name |-> "SetTheme", arg |-> "cyberpunk"]
    /\ Current.ID = "cyberpunk"
    /\ DOMAIN Available = BuiltinIDs \cup {"cyberpunk", "typo", ""}
    /\ Available["charm-dark"].Name = "My Dark"

\* LoadThemesFromDirectory has just registered the loadable files of a
\* directory and reported the others
C25_WitnessDirectory ==
    /\ themeOp = [name |-> "LoadThemesFromDirectory", arg |-> "/themes"]
    /\ themeRet.count = 4
    /\ themeRet.errors = <<"broken.json", "private.json">>
    /\ DOMAIN Available = BuiltinIDs \cup {"cyberpunk", "typo", ""}

(***************************************************************************)
(* The theme registry used by several goroutines.  Available is a plain    *)
(* Go map and Register, SetTheme and a lookup take no lock, so a call is   *)
(* two steps: the goroutine enters the runtime's map routine, and later    *)
(* leaves it.  A map write that overlaps another access of the map is a    *)
(* data race; the runtime throws a fatal error when it notices one, and    *)
(* does not always notice.                                                 *)
(***************************************************************************)
\* goroutine g is inside runtime.mapassign on Available
Writing(g) == goroutines[g].pc = "mapassign"

\* goroutine g is inside runtime.mapaccess on Available
Reading(g) == goroutines[g].pc = "mapaccess"

\* what the runtime may do when an access meets a write in progress
Detected(conflict, message) == IF conflict THEN {"", message} ELSE {""}

\* Register(t), first half: Available[t.ID] = t enters mapassign
BeginRegister(g) ==
    /\ fatal = ""
    /\ goroutines[g].pc = "ready"
    /\ \E t \in RegisterArgs :
          goroutines' = [goroutines EXCEPT
                            ![g] = [pc |-> "mapassign", call |-> "Register",
                                    theme |-> t]]
    /\ race' = (race \/ \E h \in Goroutines \ {g} : Writing(h) \/ Reading(h))
    /\ \E f \in Detected(\E h \in Goroutines \ {g} : Writing(h),
                          "concurrent map writes") : fatal' = f
    /\ UNCHANGED <<Current, Available, env, themeOp, themeRet,
                   preCurrent, preAvailable, nThemeOps, firstStyle>>
    /\ UNCHANGED springVars
    /\ UNCHANGED bridgeVars

\* Register(t), second half: the entry is stored and mapassign returns
EndRegister(g) ==
    /\ fatal = ""
    /\ Writing(g)
    /\ Available' = Register(Available, goroutines[g].theme)
    /\ goroutines' = [goroutines EXCEPT ![g].pc = "done"]
    /\ UNCHANGED <<Current, env, themeOp, themeRet, preCurrent,
                   preAvailable, nThemeOps, race, fatal, firstStyle>>
    /\ UNCHANGED springVars
    /\ UNCHANGED bridgeVars

\* SetTheme(name) or a lookup Available[name], first half: enters mapaccess
BeginLookup(g) ==
    /\ fatal = ""
    /\ goroutines[g].pc = "ready"
    /\ \E call \in {"SetTheme", "Lookup"}, name \in ThemeNames :
          goroutines' = [goroutines EXCEPT
                            ![g] = [pc |-> "mapaccess", call |-> call,
                                    theme |-> [ID |-> name]]]
    /\ race' = (race \/ \E h \in Goroutines \ {g} : Writing(h))
    /\ \E f \in Detected(\E h \in Goroutines \ {g} : Writing(h),
                          "concurrent map read and map write") : fatal' = f
    /\ UNCHANGED <<Current, Available, env, themeOp, themeRet,
                   preCurrent, preAvailable, nThemeOps, firstStyle>>
    /\ UNCHANGED springVars
    /\ UNCHANGED bridgeVars

\* second half: mapaccess returns, and SetTheme copies the theme it found
EndLookup(g) ==
    /\ fatal = ""
    /\ Reading(g)
    /\ Current' =
          IF goroutines[g].call = "SetTheme"
          THEN SetTheme(Current, Available, goroutines[g].theme.ID).Current
          ELSE Current
    /\ goroutines' = [goroutines EXCEPT ![g].pc = "done"]
    /\ UNCHANGED <<Available, env, themeOp, themeRet, preCurrent,
                   preAvailable, nThemeOps, race, fatal, firstStyle>>
    /\ UNCHANGED springVars
    /\ UNCHANGED bridgeVars

ConcurrentNext ==
    \E g \in Goroutines :
        \/ BeginRegister(g)
        \/ EndRegister(g)
        \/ BeginLookup(g)
        \/ EndLookup(g)

SpecConcurrent == ThemeInit /\ [][ConcurrentNext]_vars

\* C26: the registry is safe under concurrent use: concurrent Register
\* calls, and Register running next to SetTheme or a lookup of Available,
\* never make a data race and never a concurrent map write.
C26_NoRaceOnRegistry == ~race /\ fatal = ""

\* two Register calls at once: the runtime may throw "concurrent map writes"
C26_ConcurrentMapWrites == fatal # "concurrent map writes"

\* a race always involves a Register call: lookups alone never race
C26_SerialCallsAreSafe ==
    race => \E g \in Goroutines : goroutines[g].call = "Register"

(***************************************************************************)
(* Rendering the same arguments twice.  BuildChromaStyle takes no          *)
(* parameter and reads the package variable theme.Current.                 *)
(***************************************************************************)
\* BuildChromaStyle(), in either build, with the style of the first call kept
CallBuildChromaStyleAgain ==
    /\ \E build \in Builds :
          /\ themeOp' = [name |-> "BuildChromaStyle", arg |-> build]
          /\ themeRet' = BuildChromaStyle(Current, build)
          /\ firstStyle' =
                 IF firstStyle[build] = NotBuilt
                 THEN [firstStyle EXCEPT
                          ![build] = BuildChromaStyle(Current, build)]
                 ELSE firstStyle
    /\ preCurrent' = Current
    /\ preAvailable' = Available
    /\ UNCHANGED <<Current, Available, env, nThemeOps,
                   goroutines, race, fatal>>
    /\ UNCHANGED springVars
    /\ UNCHANGED bridgeVars

ReproduceNext ==
    \/ CallSetTheme
    \/ CallRegister
    \/ CallBuildChromaStyleAgain

SpecReproduce == ThemeInit /\ [][ReproduceNext]_vars

\* C27: rendering is reproducible from its arguments alone: two
\* BuildChromaStyle calls given the same arguments return the same style,
\* whatever SetTheme calls happened between them.
C27_SameArgumentsSameStyle ==
    themeOp.name = "BuildChromaStyle" => themeRet = firstStyle[themeOp.arg]

\* nor is the difference only a panic: two calls that both return a style
\* return different styles
C27_SameStyleWhenBothReturn ==
    /\ themeOp.name = "BuildChromaStyle"
    /\ ~themeRet.panic
    /\ ~firstStyle[themeOp.arg].panic
    => themeRet = firstStyle[themeOp.arg]

\* what does hold: calls return the same style until a theme function is
\* called between them
C27_SameStyleWithoutThemeCalls ==
    themeOp.name = "BuildChromaStyle" /\ nThemeOps = 0
    => themeRet = firstStyle[themeOp.arg]

====
